---- MODULE Spec2Model ----
(***************************************************************************)
(* The event-sourced issue store of git-issue: a Git object database, the  *)
(* reference transactions on top of it, the issue-id allocator, the event  *)
(* chain (append and replay) and the mutation operations, run by two       *)
(* concurrent processes on one repository.                                 *)
(*                                                                         *)
(* Object ids are content addresses: an object id is modelled by the       *)
(* object's content, so two writes of the same content give the same id.   *)
(* Wall-clock timestamps are not part of this model.                       *)
(***************************************************************************)
EXTENDS Integers, Sequences, FiniteSets, TLC

\* Number of store operations started in one run, and of create_issue calls
\* in a run of the allocator alone.
MaxOps == 2
MaxCreates == 3
MaxChain == 2
MaxClock == 2

\* The concurrent processes sharing the repository, and who runs them.
Procs == {1, 2}
Identities == {"alice", "bob"}
ProcAuthor(p) == IF p = 1 THEN "alice" ELSE "bob"

\* Input values of the operations.
InitialTitles == {"T1"}
InitialDescriptions == {"D1"}
Titles == {"T1", "T2", "T3"}
Descriptions == {"D1", "D2"}
Statuses == {"Todo", "InProgress"}
Priorities == {"None", "High"}
Labels == {"bug"}
Contents == {"c1"}
AssigneeOptions == {<<>>, <<"alice">>}
AssigneeLists == {<<>>, <<"alice", "bob">>}
MaxIssueId == IF MaxOps + 1 > MaxCreates THEN MaxOps + 1 ELSE MaxCreates
IssueIds == 1..MaxIssueId

VARIABLES refs, locks, odb, proc, allocCount, ops, applied, remote, sync, now

vars == <<refs, locks, odb, proc, allocCount, ops, applied, remote, sync, now>>

----------------------------------------------------------------------------
(* Reference names *)

refs_namespace == "refs/git-tracker"
Namespaces == {"refs/git-tracker", "refs/git-issue"}

meta_ref == <<refs_namespace, "meta", 0>>
issue_ref_name(issue_id) == <<refs_namespace, "issues", issue_id>>

RefNames == {<<ns, "meta", 0>> : ns \in Namespaces}
            \cup {<<ns, "issues", i>> : ns \in Namespaces, i \in IssueIds}

----------------------------------------------------------------------------
(* Git objects *)

NoOid == [kind |-> "none"]
Blob(data) == [kind |-> "blob", data |-> data]
Tree(entries) == [kind |-> "tree", entries |-> entries]
CommitObject(tree, parents, author) ==
    [kind |-> "commit", tree |-> tree, parents |-> parents, author |-> author,
     committer |-> author, time |-> now]

Ok(v) == [ok |-> TRUE, val |-> v]
Err(e) == [ok |-> FALSE, err |-> e]

\* The repository the operations work on: its refs and its object store.
Repo == [refs |-> refs, odb |-> odb]

read_ref(repo, name) == repo.refs[name]

read_blob(repo, oid) ==
    IF oid \in repo.odb /\ oid.kind = "blob" THEN Ok(oid.data)
    ELSE Err("Git(ObjectReadFailed)")

read_tree(repo, oid) ==
    IF oid \in repo.odb /\ oid.kind = "tree" THEN Ok(oid.entries)
    ELSE Err("Git(ObjectReadFailed)")

read_commit(repo, oid) ==
    IF oid \in repo.odb /\ oid.kind = "commit"
    THEN Ok([tree |-> oid.tree, parents |-> oid.parents, author |-> oid.author,
             timestamp |-> now])
    ELSE Err("Git(ObjectReadFailed)")

----------------------------------------------------------------------------
(* Events *)

EventKinds == {"Created", "StatusChanged", "CommentAdded", "LabelAdded",
               "LabelRemoved", "TitleChanged", "AssigneeChanged",
               "AssigneesChanged", "DescriptionChanged", "PriorityChanged",
               "CreatedByChanged"}

NoEvent == [kind |-> "none"]

\* Each constructor stamps the event with Utc::now().
created(title, description, author) ==
    [kind |-> "Created", title |-> title, description |-> description,
     author |-> author, timestamp |-> now]
status_changed(from, to, author) ==
    [kind |-> "StatusChanged", from |-> from, to |-> to, author |-> author, timestamp |-> now]
comment_added(comment_id, content, author) ==
    [kind |-> "CommentAdded", comment_id |-> comment_id, content |-> content,
     author |-> author, timestamp |-> now]
label_added(label, author) ==
    [kind |-> "LabelAdded", label |-> label, author |-> author, timestamp |-> now]
label_removed(label, author) ==
    [kind |-> "LabelRemoved", label |-> label, author |-> author, timestamp |-> now]
title_changed(old_title, new_title, author) ==
    [kind |-> "TitleChanged", old_title |-> old_title, new_title |-> new_title,
     author |-> author, timestamp |-> now]
assignee_changed(old_assignee, new_assignee, author) ==
    [kind |-> "AssigneeChanged", old_assignee |-> old_assignee,
     new_assignee |-> new_assignee, author |-> author, timestamp |-> now]
assignees_changed(old_assignees, new_assignees, author) ==
    [kind |-> "AssigneesChanged", old_assignees |-> old_assignees,
     new_assignees |-> new_assignees, author |-> author, timestamp |-> now]
description_changed(old_description, new_description, author) ==
    [kind |-> "DescriptionChanged", old_description |-> old_description,
     new_description |-> new_description, author |-> author, timestamp |-> now]
priority_changed(old_priority, new_priority, author) ==
    [kind |-> "PriorityChanged", old_priority |-> old_priority,
     new_priority |-> new_priority, author |-> author, timestamp |-> now]
created_by_changed(old_created_by, new_created_by, author) ==
    [kind |-> "CreatedByChanged", old_created_by |-> old_created_by,
     new_created_by |-> new_created_by, author |-> author, timestamp |-> now]

\* serde_json::to_string of an event, and serde_json::from_slice back: the
\* blob of an event is its tagged record; a blob that is not one (the
\* counter blob) does not decode.
EncodeEvent(event) == [json |-> event]
DecodeEvent(data) ==
    IF "json" \in DOMAIN data /\ data.json.kind \in EventKinds
    THEN Ok(data.json)
    ELSE Err("Serialization")

\* The counter blob: the decimal text of the next id, and its parse.
EncodeNextId(n) == [decimal |-> n]
DecodeNextId(data) ==
    IF "decimal" \in DOMAIN data THEN Ok(data.decimal)
    ELSE Err("Git(InvalidObjectData)")

----------------------------------------------------------------------------
(* Sequence helpers *)

Reverse(s) == [k \in 1..Len(s) |-> s[Len(s) + 1 - k]]
Contains(s, x) == \E k \in 1..Len(s) : s[k] = x
IsPrefix(s, t) == Len(s) <= Len(t) /\ \A k \in 1..Len(s) : s[k] = t[k]
SetMin(S) == CHOOSE x \in S : \A y \in S : x <= y

----------------------------------------------------------------------------
(* Replay: the aggregate and the fold *)

\* A variant that has no effect for the two variants and fails on them.
apply_event_unlisted_fails(issue, event) == Err("unknown event")

\* Issue::apply_event arms for the event variants the match in issue.rs
\* does not list.
apply_event_unlisted(issue, event) ==
    IF event.kind = "AssigneesChanged"
    THEN Ok([issue EXCEPT !.updated_at = event.timestamp, !.assignees = event.new_assignees])
    ELSE IF event.kind = "CreatedByChanged"
    THEN Ok([issue EXCEPT !.updated_at = event.timestamp, !.created_by = event.new_created_by])
    ELSE Err("unknown event")

\* A variant of the replay step that pushes the label of every LabelAdded.
apply_event_pushes(issue, event) ==
    CASE event.kind = "Created" ->
           Err("Cannot apply Created event to existing issue")
      [] event.kind = "StatusChanged" ->
           Ok([issue EXCEPT !.updated_at = event.timestamp, !.status = event.to])
      [] event.kind = "CommentAdded" ->
           Ok([issue EXCEPT !.updated_at = event.timestamp, !.comments =
                 Append(@, [id |-> event.comment_id, content |-> event.content,
                            created_at |-> event.timestamp,
                            author |-> event.author])])
      [] event.kind = "LabelAdded" ->
           Ok([issue EXCEPT !.updated_at = event.timestamp, !.labels = Append(@, event.label)])
      [] event.kind = "LabelRemoved" ->
           LET Keep(l) == l # event.label
           IN  Ok([issue EXCEPT !.updated_at = event.timestamp, !.labels = SelectSeq(@, Keep)])
      [] event.kind = "TitleChanged" ->
           Ok([issue EXCEPT !.updated_at = event.timestamp, !.title = event.new_title])
      [] event.kind = "AssigneeChanged" ->
           Ok([issue EXCEPT !.updated_at = event.timestamp, !.assignees = event.new_assignee])
      [] event.kind = "DescriptionChanged" ->
           Ok([issue EXCEPT !.updated_at = event.timestamp, !.description = event.new_description])
      [] event.kind = "PriorityChanged" ->
           Ok([issue EXCEPT !.updated_at = event.timestamp, !.priority = event.new_priority])
      [] OTHER -> apply_event_unlisted(issue, event)

\* A variant of the replay step that passes over a Created event.
apply_event_skips_created(issue, event) ==
    CASE event.kind = "Created" ->
           Ok(issue)
      [] event.kind = "StatusChanged" ->
           Ok([issue EXCEPT !.updated_at = event.timestamp, !.status = event.to])
      [] event.kind = "CommentAdded" ->
           Ok([issue EXCEPT !.updated_at = event.timestamp, !.comments =
                 Append(@, [id |-> event.comment_id, content |-> event.content,
                            created_at |-> event.timestamp,
                            author |-> event.author])])
      [] event.kind = "LabelAdded" ->
           Ok(IF ~Contains(issue.labels, event.label)
              THEN [issue EXCEPT !.updated_at = event.timestamp, !.labels = Append(@, event.label)]
              ELSE [issue EXCEPT !.updated_at = event.timestamp])
      [] event.kind = "LabelRemoved" ->
           LET Keep(l) == l # event.label
           IN  Ok([issue EXCEPT !.updated_at = event.timestamp, !.labels = SelectSeq(@, Keep)])
      [] event.kind = "TitleChanged" ->
           Ok([issue EXCEPT !.updated_at = event.timestamp, !.title = event.new_title])
      [] event.kind = "AssigneeChanged" ->
           Ok([issue EXCEPT !.updated_at = event.timestamp, !.assignees = event.new_assignee])
      [] event.kind = "DescriptionChanged" ->
           Ok([issue EXCEPT !.updated_at = event.timestamp, !.description = event.new_description])
      [] event.kind = "PriorityChanged" ->
           Ok([issue EXCEPT !.updated_at = event.timestamp, !.priority = event.new_priority])
      [] OTHER -> apply_event_unlisted(issue, event)

apply_event(issue, event) ==
    CASE event.kind = "Created" ->
           Err("Cannot apply Created event to existing issue")
      [] event.kind = "StatusChanged" ->
           Ok([issue EXCEPT !.updated_at = event.timestamp, !.status = event.to])
      [] event.kind = "CommentAdded" ->
           Ok([issue EXCEPT !.updated_at = event.timestamp, !.comments =
                 Append(@, [id |-> event.comment_id, content |-> event.content,
                            created_at |-> event.timestamp,
                            author |-> event.author])])
      [] event.kind = "LabelAdded" ->
           Ok(IF ~Contains(issue.labels, event.label)
              THEN [issue EXCEPT !.updated_at = event.timestamp, !.labels = Append(@, event.label)]
              ELSE [issue EXCEPT !.updated_at = event.timestamp])
      [] event.kind = "LabelRemoved" ->
           LET Keep(l) == l # event.label
           IN  Ok([issue EXCEPT !.updated_at = event.timestamp, !.labels = SelectSeq(@, Keep)])
      [] event.kind = "TitleChanged" ->
           Ok([issue EXCEPT !.updated_at = event.timestamp, !.title = event.new_title])
      [] event.kind = "AssigneeChanged" ->
           Ok([issue EXCEPT !.updated_at = event.timestamp, !.assignees = event.new_assignee])
      [] event.kind = "DescriptionChanged" ->
           Ok([issue EXCEPT !.updated_at = event.timestamp, !.description = event.new_description])
      [] event.kind = "PriorityChanged" ->
           Ok([issue EXCEPT !.updated_at = event.timestamp, !.priority = event.new_priority])
      [] OTHER -> apply_event_unlisted(issue, event)

RECURSIVE ApplyAll(_, _, _)
\* the loop of from_events: events[k..] applied in order, stopping at an error
ApplyAll(issue, events, k) ==
    IF k > Len(events) THEN Ok(issue)
    ELSE LET r == apply_event(issue, events[k])
         IN  IF r.ok THEN ApplyAll(r.val, events, k + 1) ELSE r

\* A reader that builds the aggregate from the Created event and replays
\* nothing after it.
from_events_unreplayed(issue_id, events) ==
    IF Len(events) = 0 THEN Err("Cannot create issue from empty event list")
    ELSE IF events[1].kind # "Created" THEN Err("First event must be Created")
    ELSE Ok([id |-> issue_id,
             title |-> events[1].title,
             description |-> events[1].description,
             status |-> "Todo",
             priority |-> "None",
             labels |-> <<>>,
             comments |-> <<>>,
             created_by |-> events[1].author,
             assignees |-> <<>>,
             created_at |-> events[1].timestamp,
             updated_at |-> events[1].timestamp])

from_events(issue_id, events) ==
    IF Len(events) = 0 THEN Err("Cannot create issue from empty event list")
    ELSE IF events[1].kind # "Created" THEN Err("First event must be Created")
    ELSE ApplyAll([id |-> issue_id,
                   title |-> events[1].title,
                   description |-> events[1].description,
                   status |-> "Todo",
                   priority |-> "None",
                   labels |-> <<>>,
                   comments |-> <<>>,
                   created_by |-> events[1].author,
                   assignees |-> <<>>,
                   created_at |-> events[1].timestamp,
                   updated_at |-> events[1].timestamp],
                  events, 2)

RECURSIVE WalkChain(_, _)
\* the while loop of get_issue_events: from a commit along the first
\* parents, the events newest first
WalkChain(repo, current) ==
    IF current = <<>> THEN Ok(<<>>)
    ELSE
      LET commit_data == read_commit(repo, current[1]) IN
      IF ~commit_data.ok THEN commit_data
      ELSE
        LET tree_entries == read_tree(repo, commit_data.val.tree) IN
        IF ~tree_entries.ok THEN tree_entries
        ELSE
          LET found == {k \in 1..Len(tree_entries.val) :
                          tree_entries.val[k].name = "event.json"} IN
          IF found = {} THEN Err("InvalidEventSequence")
          ELSE
            LET event_json == read_blob(repo, tree_entries.val[SetMin(found)].oid) IN
            IF ~event_json.ok THEN event_json
            ELSE
              LET event == DecodeEvent(event_json.val) IN
              IF ~event.ok THEN event
              ELSE
                LET parents == commit_data.val.parents
                    rest == WalkChain(repo, IF Len(parents) = 0 THEN <<>>
                                      ELSE <<parents[1]>>)
                IN  IF rest.ok THEN Ok(<<event.val>> \o rest.val) ELSE rest

\* A variant that takes the time of each event from the CommitData of its
\* commit.
get_issue_events_stamped(repo, issue_id) ==
    LET head == read_ref(repo, issue_ref_name(issue_id)) IN
    IF head = NoOid THEN Ok(<<>>)
    ELSE LET walked == WalkChain(repo, <<head>>)
             Stamped(events) ==
                 [k \in 1..Len(events) |->
                    [events[k] EXCEPT
                       !.timestamp = read_commit(repo, head).val.timestamp]]
         IN  IF walked.ok THEN Ok(Stamped(Reverse(walked.val))) ELSE walked

get_issue_events(repo, issue_id) ==
    LET head == read_ref(repo, issue_ref_name(issue_id)) IN
    IF head = NoOid THEN Ok(<<>>)
    ELSE LET walked == WalkChain(repo, <<head>>)
         IN  IF walked.ok THEN Ok(Reverse(walked.val)) ELSE walked

\* A variant of get_issue that answers with a blank issue when the issue
\* has no events.
get_issue_blank(repo, issue_id) ==
    LET events == get_issue_events(repo, issue_id) IN
    IF ~events.ok THEN events
    ELSE IF Len(events.val) = 0
    THEN Ok([id |-> issue_id, title |-> "", description |-> "",
             status |-> "Todo", priority |-> "None", labels |-> <<>>,
             comments |-> <<>>, created_by |-> "", assignees |-> <<>>,
             created_at |-> now, updated_at |-> now])
    ELSE LET issue == from_events(issue_id, events.val)
         IN  IF issue.ok THEN issue ELSE Err("InvalidEventSequence")

get_issue(repo, issue_id) ==
    LET events == get_issue_events(repo, issue_id) IN
    IF ~events.ok THEN events
    ELSE IF Len(events.val) = 0 THEN Err("IssueNotFound")
    ELSE LET issue == from_events(issue_id, events.val)
         IN  IF issue.ok THEN issue ELSE Err("InvalidEventSequence")

get_next_issue_id(repo) ==
    LET oid == read_ref(repo, meta_ref) IN
    IF oid = NoOid THEN Ok(1)
    ELSE LET blob_data == read_blob(repo, oid)
         IN  IF blob_data.ok THEN DecodeNextId(blob_data.val) ELSE blob_data

----------------------------------------------------------------------------
(* Listing *)

\* The prefixes the listing and the sync code spell out.
issues_prefix == <<"refs/git-issue", "issues">>
meta_prefix == <<"refs/git-issue", "meta">>

\* list_refs: the refs whose name starts with the prefix.  The order of
\* the iteration is left open; every caller sorts or only tests membership.
list_refs(repo, prefix) ==
    {name \in RefNames :
        /\ <<name[1], name[2]>> = prefix
        /\ read_ref(repo, name) # NoOid}

RECURSIVE SortIds(_)
\* issue_ids.sort()
SortIds(ids) ==
    IF ids = {} THEN <<>>
    ELSE <<SetMin(ids)>> \o SortIds(ids \ {SetMin(ids)})

\* list_issue_ids: the number after the prefix of every listed ref, sorted.
list_issue_ids(repo) ==
    SortIds({name[3] : name \in list_refs(repo, issues_prefix)})

RECURSIVE ListFrom(_, _, _)
\* the loop of list_issues from position k of the ids: an issue that reads
\* as IssueNotFound is skipped, any other error ends the listing.
ListFrom(repo, issue_ids, k) ==
    IF k > Len(issue_ids) THEN Ok(<<>>)
    ELSE LET issue == get_issue(repo, issue_ids[k]) IN
         IF issue.ok
         THEN LET rest == ListFrom(repo, issue_ids, k + 1)
              IN  IF rest.ok THEN Ok(<<issue.val>> \o rest.val) ELSE rest
         ELSE IF issue.err = "IssueNotFound"
         THEN ListFrom(repo, issue_ids, k + 1)
         ELSE issue

list_issues(repo) == ListFrom(repo, list_issue_ids(repo), 1)

list_issue_refs(repo) == list_refs(repo, issues_prefix)
list_meta_refs(repo) == list_refs(repo, meta_prefix)
ref_exists(repo, name) == read_ref(repo, name) # NoOid

----------------------------------------------------------------------------
(* Process state *)

\* Option<T>: <<>> is None, <<x>> is Some(x).
Some(oid) == IF oid = NoOid THEN <<>> ELSE <<oid>>

\* A process that is not in an operation, or enters operation op on
\* issue_id.  seen is the head of the issue that get_issue read.
Fresh(op, issue_id) ==
    [pc |-> "idle", op |-> op, issue_id |-> issue_id, seen |-> <<>>,
     event |-> NoEvent, current_id |-> 0, old_oid |-> <<>>, parent |-> <<>>,
     result |-> "none"]

\* The objects append_event writes for an event on a parent.
EventBlob(event) == Blob(EncodeEvent(event))
EventTree(event) ==
    Tree(<<[name |-> "event.json", oid |-> EventBlob(event), mode |-> "100644"]>>)

\* A commit that records no parent.
EventCommit_orphan(event, parent) ==
    CommitObject(EventTree(event), <<>>, event.author)

EventCommit(event, parent) ==
    CommitObject(EventTree(event), parent, event.author)

\* A counter blob that holds the id being handed out, not the one after it.
NextIdBlob_same(current_id) == Blob(EncodeNextId(current_id))

NextIdBlob(current_id) == Blob(EncodeNextId(current_id + 1))

\* No sync is running and the remote holds no refs.
NoSync ==
    [pc |-> "idle", engine |-> "none", force |-> FALSE,
     force_without_lease |-> FALSE, dry_run |-> FALSE,
     refs_to_sync |-> <<>>, remote_refs |-> [name \in RefNames |-> NoOid],
     sync_refs |-> <<>>, refs_needing_sync |-> <<>>, k |-> 1,
     pushed_refs |-> <<>>, skipped_refs |-> <<>>, failed_refs |-> <<>>,
     conflicts |-> <<>>, pushes |-> <<>>, advanced |-> FALSE,
     result |-> "none"]
NoRemote ==
    /\ remote = [name \in RefNames |-> NoOid]
    /\ sync = NoSync

\* IssueStore::init: a new, empty repository.
InitFresh ==
    /\ now = 0
    /\ refs = [name \in RefNames |-> NoOid]
    /\ locks = [name \in RefNames |-> 0]
    /\ odb = {}
    /\ proc = [p \in Procs |-> Fresh("none", 0)]
    /\ allocCount = [i \in IssueIds |-> 0]
    /\ ops = 0
    /\ applied = [i \in IssueIds |-> <<>>]
    /\ NoRemote

\* IssueStore::open: a repository in which create_issue has run once.
FirstEvent == created("T1", "D1", "alice")
InitOpened ==
    /\ now = 0
    /\ refs = [name \in RefNames |->
                IF name = meta_ref THEN NextIdBlob(1)
                ELSE IF name = issue_ref_name(1) THEN EventCommit(FirstEvent, <<>>)
                ELSE NoOid]
    /\ locks = [name \in RefNames |-> 0]
    /\ odb = {NextIdBlob(1), EventBlob(FirstEvent), EventTree(FirstEvent),
              EventCommit(FirstEvent, <<>>)}
    /\ proc = [p \in Procs |-> Fresh("none", 0)]
    /\ allocCount = [i \in IssueIds |-> 0]
    /\ ops = 0
    /\ applied = [i \in IssueIds |-> IF i = 1 THEN <<FirstEvent>> ELSE <<>>]
    /\ NoRemote

Init == InitFresh \/ InitOpened

\* A process is between operations and can start one.
Start(p) == proc[p].pc = "idle"

\* The operation of p returns with the given result.  What the process
\* keeps of a finished append_event (issue, head seen, event, parent) is a
\* record of the call for the properties below; no operation reads it.
Finish(p, result) ==
    proc' = [proc EXCEPT ![p] =
               IF proc[p].pc \in {"ref_prepare", "ref_commit"}
               THEN [Fresh(proc[p].op, proc[p].issue_id) EXCEPT
                       !.seen = proc[p].seen,
                       !.event = proc[p].event, !.parent = proc[p].parent,
                       !.result = result]
               ELSE [Fresh("none", 0) EXCEPT !.result = result]]

----------------------------------------------------------------------------
(* Reference transactions *)

\* Mutants of the two checks: the previous value is not looked at.
create_ref_overwrites(name) == TRUE
update_ref_unconditional(name, expected) == TRUE

\* PreviousValue::MustNotExist
create_ref_expected(name) == refs[name] = NoOid

\* PreviousValue::MustExistAndMatch(expected) / PreviousValue::Any
update_ref_expected(name, expected) ==
    IF expected = <<>> THEN TRUE ELSE refs[name] = expected[1]

\* The log of the mutations that returned success, per issue and in the
\* order of their return: a record for the properties; no operation reads it.
Logged(p) ==
    applied' = IF /\ proc[p].pc = "ref_commit"
                  /\ proc'[p].pc = "idle"
                  /\ proc'[p].result = "Ok"
               THEN [applied EXCEPT ![proc[p].issue_id] =
                       Append(@, proc[p].event)]
               ELSE applied

\* What a step of a store operation leaves alone: the remote and the sync.
Outside(p) == Logged(p) /\ UNCHANGED <<remote, sync, now>>

InAllocation(p) == proc[p].pc \in {"alloc_prepare", "alloc_commit"}

\* The edit of the transaction p is running: the counter ref while
\* allocating, the issue ref while appending.
TxName(p) ==
    IF InAllocation(p) THEN meta_ref ELSE issue_ref_name(proc[p].issue_id)
TxNew(p) ==
    IF InAllocation(p) THEN NextIdBlob(proc[p].current_id)
    ELSE EventCommit(proc[p].event, proc[p].parent)
TxPrevious(p) == IF InAllocation(p) THEN proc[p].old_oid ELSE proc[p].parent
\* PreviousValue::Any in every edit.
TxExpected_any(p) == TRUE
TxExpected(p) ==
    IF TxPrevious(p) = <<>> THEN create_ref_expected(TxName(p))
    ELSE update_ref_expected(TxName(p), TxPrevious(p))
TxError(p) ==
    IF TxPrevious(p) = <<>> THEN "Git(ReferenceCreationFailed)"
    ELSE "Git(ReferenceUpdateFailed)"

\* transaction().prepare(.., Fail::Immediately, ..): take the lock of the
\* ref or fail at once.  The check of the expected value is made under the
\* lock and is modelled in transaction_commit.
transaction_prepare(p) ==
    /\ proc[p].pc \in {"alloc_prepare", "ref_prepare"}
    /\ IF locks[TxName(p)] # 0
       THEN /\ Finish(p, TxError(p))
            /\ UNCHANGED locks
       ELSE /\ locks' = [locks EXCEPT ![TxName(p)] = p]
            /\ proc' = [proc EXCEPT ![p].pc =
                          IF InAllocation(p) THEN "alloc_commit" ELSE "ref_commit"]
    /\ UNCHANGED <<refs, odb, allocCount, ops>>
    /\ Outside(p)

\* A transaction whose edit of an issue ref is dropped: the lock is released
\* and success is returned, and the ref keeps its old value.
transaction_commit_drops_edit(p) ==
    /\ proc[p].pc \in {"alloc_commit", "ref_commit"}
    /\ locks' = [locks EXCEPT ![TxName(p)] = 0]
    /\ IF ~TxExpected(p)
       THEN /\ Finish(p, TxError(p))
            /\ UNCHANGED <<refs, allocCount>>
       ELSE IF InAllocation(p)
       THEN /\ refs' = [refs EXCEPT ![TxName(p)] = TxNew(p)]
            /\ proc' = [proc EXCEPT ![p].pc = "write_objects",
                                    ![p].issue_id = proc[p].current_id,
                                    ![p].parent = <<>>]
            /\ allocCount' = [allocCount EXCEPT ![proc[p].current_id] = @ + 1]
       ELSE /\ Finish(p, "Ok")
            /\ UNCHANGED <<refs, allocCount>>
    /\ UNCHANGED <<odb, ops>>
    /\ Outside(p)

\* A transaction that carries a second edit in every append: the counter
\* ref is moved past the issue.
transaction_commit_moves_counter(p) ==
    /\ proc[p].pc \in {"alloc_commit", "ref_commit"}
    /\ locks' = [locks EXCEPT ![TxName(p)] = 0]
    /\ IF ~TxExpected(p)
       THEN /\ Finish(p, TxError(p))
            /\ UNCHANGED <<refs, allocCount>>
       ELSE IF InAllocation(p)
       THEN /\ refs' = [refs EXCEPT ![TxName(p)] = TxNew(p)]
            /\ proc' = [proc EXCEPT ![p].pc = "write_objects",
                                    ![p].issue_id = proc[p].current_id,
                                    ![p].parent = <<>>]
            /\ allocCount' = [allocCount EXCEPT ![proc[p].current_id] = @ + 1]
       ELSE /\ refs' = [refs EXCEPT ![TxName(p)] = TxNew(p),
                                    ![meta_ref] = NextIdBlob(proc[p].issue_id + 1)]
            /\ Finish(p, "Ok")
            /\ UNCHANGED allocCount
    /\ UNCHANGED <<odb, ops>>
    /\ Outside(p)

\* The rest of the transaction: check the expected previous value, write
\* the ref, release the lock.  After the counter update increment_issue_id
\* returns current_id and create_issue goes on to append the Created event.
transaction_commit(p) ==
    /\ proc[p].pc \in {"alloc_commit", "ref_commit"}
    /\ locks' = [locks EXCEPT ![TxName(p)] = 0]
    /\ IF ~TxExpected(p)
       THEN /\ Finish(p, TxError(p))
            /\ UNCHANGED <<refs, allocCount>>
       ELSE /\ refs' = [refs EXCEPT ![TxName(p)] = TxNew(p)]
            /\ IF InAllocation(p)
               THEN /\ proc' = [proc EXCEPT ![p].pc = "write_objects",
                                            ![p].issue_id = proc[p].current_id,
                                            ![p].parent = <<>>]
                    /\ allocCount' = [allocCount EXCEPT ![proc[p].current_id] = @ + 1]
               ELSE /\ Finish(p, "Ok")
                    /\ UNCHANGED allocCount
    /\ UNCHANGED <<odb, ops>>
    /\ Outside(p)

----------------------------------------------------------------------------
(* create_issue and the allocator *)

\* create_issue up to the first statement of increment_issue_id, the read
\* of the counter.
create_issue(p, title, description) ==
    /\ Start(p)
    /\ LET current_id == get_next_issue_id(Repo)
           call == Fresh("create_issue", 0)
       IN  proc' = [proc EXCEPT ![p] =
                      IF ~current_id.ok
                      THEN [call EXCEPT !.result = current_id.err]
                      ELSE [call EXCEPT
                              !.pc = "alloc_read_ref",
                              !.current_id = current_id.val,
                              !.event = created(title, description, ProcAuthor(p))]]
    /\ ops' = ops + 1
    /\ UNCHANGED <<refs, locks, odb, allocCount>>
    /\ Outside(p)

\* increment_issue_id: write the blob of next_id, then read the counter ref
\* a second time; that value is the expected value of the update.  The blob
\* is not reachable from any ref, so writing it is not a step of its own.
increment_read_ref(p) ==
    /\ proc[p].pc = "alloc_read_ref"
    /\ odb' = odb \cup {NextIdBlob(proc[p].current_id)}
    /\ proc' = [proc EXCEPT ![p].old_oid = Some(read_ref(Repo, meta_ref)),
                            ![p].pc = "alloc_prepare"]
    /\ UNCHANGED <<refs, locks, allocCount, ops>>
    /\ Outside(p)

----------------------------------------------------------------------------
(* append_event *)

\* Mutant: the issue ref is moved as soon as the commit is written.
append_write_objects_moves_ref(p) ==
    /\ proc[p].pc = "write_objects"
    /\ odb' = odb \cup {EventBlob(proc[p].event), EventTree(proc[p].event),
                        EventCommit(proc[p].event, proc[p].parent)}
    /\ refs' = [refs EXCEPT ![issue_ref_name(proc[p].issue_id)] =
                  EventCommit(proc[p].event, proc[p].parent)]
    /\ proc' = [proc EXCEPT ![p].pc = "ref_prepare"]
    /\ UNCHANGED <<locks, allocCount, ops>>
    /\ Outside(p)

\* write_blob, write_tree and write_commit of append_event.  The three
\* objects are not reachable from any ref until the ref is updated, so they
\* are written in one step.
append_write_objects(p) ==
    /\ proc[p].pc = "write_objects"
    /\ odb' = odb \cup {EventBlob(proc[p].event), EventTree(proc[p].event),
                        EventCommit(proc[p].event, proc[p].parent)}
    /\ proc' = [proc EXCEPT ![p].pc = "ref_prepare"]
    /\ UNCHANGED <<refs, locks, allocCount, ops>>
    /\ Outside(p)

\* write_blob, write_tree or write_commit returns ObjectCreationFailed (or
\* the process is interrupted there): the objects written before it stay,
\* append_event returns the error and the ref is not touched.
WrittenBefore(p, failing) ==
    CASE failing = "blob" -> {}
      [] failing = "tree" -> {EventBlob(proc[p].event)}
      [] failing = "commit" -> {EventBlob(proc[p].event), EventTree(proc[p].event)}

append_write_fails(p, failing) ==
    /\ proc[p].pc = "write_objects"
    /\ odb' = odb \cup WrittenBefore(p, failing)
    /\ Finish(p, "Git(ObjectCreationFailed)")
    /\ UNCHANGED <<refs, locks, allocCount, ops>>
    /\ Outside(p)

----------------------------------------------------------------------------
(* Mutation operations *)

\* What the first part of a mutation (get_issue and the comparison with the
\* request) decides: return at once, or go on to append an event.
Return(result) == [done |-> TRUE, result |-> result, event |-> NoEvent]
Proceed(event) == [done |-> FALSE, result |-> "none", event |-> event]

Mutation(p, op, issue_id, outcome) ==
    /\ Start(p)
    /\ proc' = [proc EXCEPT ![p] =
                  IF outcome.done /\ outcome.result # "Ok"
                  THEN [Fresh("none", 0) EXCEPT !.result = outcome.result]
                  ELSE IF outcome.done
                  THEN [Fresh(op, issue_id) EXCEPT
                          !.seen = Some(read_ref(Repo, issue_ref_name(issue_id))),
                          !.result = outcome.result]
                  ELSE [Fresh(op, issue_id) EXCEPT
                          !.seen = Some(read_ref(Repo, issue_ref_name(issue_id))),
                          !.pc = "read_head",
                          !.event = outcome.event]]
    /\ ops' = ops + 1
    /\ UNCHANGED <<refs, locks, odb, allocCount>>
    /\ Outside(p)

\* Mutant: the status is never found unchanged.
status_always_changed(current_issue, new_status) == FALSE

\* The no-op tests of the mutations.
status_unchanged(current_issue, new_status) == current_issue.status = new_status
label_exists(current_issue, label) == Contains(current_issue.labels, label)
title_unchanged(current_issue, new_title) == current_issue.title = new_title
current_assignee(current_issue) ==
    IF Len(current_issue.assignees) = 0 THEN <<>>
    ELSE <<current_issue.assignees[1]>>
assignee_unchanged(current_issue, new_assignee) ==
    current_assignee(current_issue) = new_assignee
assignees_unchanged(current_issue, new_assignees) ==
    current_issue.assignees = new_assignees
description_unchanged(current_issue, new_description) ==
    current_issue.description = new_description
priority_unchanged(current_issue, new_priority) ==
    current_issue.priority = new_priority
created_by_unchanged(current_issue, new_created_by) ==
    current_issue.created_by = new_created_by

\* format!("{}-{}", issue_id, n): the pair of the two numbers
CommentId(issue_id, n) == <<issue_id, n>>

update_issue_status_outcome(p, issue_id, new_status) ==
    LET current_issue == get_issue(Repo, issue_id) IN
    IF ~current_issue.ok THEN Return(current_issue.err)
    ELSE IF status_unchanged(current_issue.val, new_status) THEN Return("Ok")
    ELSE Proceed(status_changed(current_issue.val.status, new_status,
                                ProcAuthor(p)))

update_issue_status(p, issue_id, new_status) ==
    Mutation(p, "update_issue_status", issue_id,
             update_issue_status_outcome(p, issue_id, new_status))

add_comment_outcome(p, issue_id, content) ==
    LET current_issue == get_issue(Repo, issue_id) IN
    IF ~current_issue.ok THEN Return(current_issue.err)
    ELSE Proceed(comment_added(
             CommentId(issue_id, Len(current_issue.val.comments) + 1),
             content, ProcAuthor(p)))

add_comment(p, issue_id, content) ==
    Mutation(p, "add_comment", issue_id,
             add_comment_outcome(p, issue_id, content))

add_label_outcome(p, issue_id, label) ==
    LET current_issue == get_issue(Repo, issue_id) IN
    IF ~current_issue.ok THEN Return(current_issue.err)
    ELSE IF label_exists(current_issue.val, label) THEN Return("Ok")
    ELSE Proceed(label_added(label, ProcAuthor(p)))

add_label(p, issue_id, label) ==
    Mutation(p, "add_label", issue_id,
             add_label_outcome(p, issue_id, label))

remove_label_outcome(p, issue_id, label) ==
    LET current_issue == get_issue(Repo, issue_id) IN
    IF ~current_issue.ok THEN Return(current_issue.err)
    ELSE IF ~label_exists(current_issue.val, label) THEN Return("Ok")
    ELSE Proceed(label_removed(label, ProcAuthor(p)))

remove_label(p, issue_id, label) ==
    Mutation(p, "remove_label", issue_id,
             remove_label_outcome(p, issue_id, label))

update_title_outcome(p, issue_id, new_title) ==
    LET current_issue == get_issue(Repo, issue_id) IN
    IF ~current_issue.ok THEN Return(current_issue.err)
    ELSE IF title_unchanged(current_issue.val, new_title) THEN Return("Ok")
    ELSE Proceed(title_changed(current_issue.val.title, new_title,
                               ProcAuthor(p)))

update_title(p, issue_id, new_title) ==
    Mutation(p, "update_title", issue_id,
             update_title_outcome(p, issue_id, new_title))

update_assignee_outcome(p, issue_id, new_assignee) ==
    LET current_issue == get_issue(Repo, issue_id) IN
    IF ~current_issue.ok THEN Return(current_issue.err)
    ELSE IF assignee_unchanged(current_issue.val, new_assignee) THEN Return("Ok")
    ELSE Proceed(assignee_changed(current_assignee(current_issue.val),
                                  new_assignee, ProcAuthor(p)))

update_assignee(p, issue_id, new_assignee) ==
    Mutation(p, "update_assignee", issue_id,
             update_assignee_outcome(p, issue_id, new_assignee))

update_assignees_outcome(p, issue_id, new_assignees) ==
    LET current_issue == get_issue(Repo, issue_id) IN
    IF ~current_issue.ok THEN Return(current_issue.err)
    ELSE IF assignees_unchanged(current_issue.val, new_assignees) THEN Return("Ok")
    ELSE Proceed(assignees_changed(current_issue.val.assignees, new_assignees,
                                   ProcAuthor(p)))

update_assignees(p, issue_id, new_assignees) ==
    Mutation(p, "update_assignees", issue_id,
             update_assignees_outcome(p, issue_id, new_assignees))

update_description_outcome(p, issue_id, new_description) ==
    LET issue == get_issue(Repo, issue_id) IN
    IF ~issue.ok THEN Return(issue.err)
    ELSE IF ~description_unchanged(issue.val, new_description)
    THEN Proceed(description_changed(issue.val.description, new_description,
                                     ProcAuthor(p)))
    ELSE Return("Ok")

update_description(p, issue_id, new_description) ==
    Mutation(p, "update_description", issue_id,
             update_description_outcome(p, issue_id, new_description))

update_priority_outcome(p, issue_id, new_priority) ==
    LET current_issue == get_issue(Repo, issue_id) IN
    IF ~current_issue.ok THEN Return(current_issue.err)
    ELSE IF priority_unchanged(current_issue.val, new_priority) THEN Return("Ok")
    ELSE Proceed(priority_changed(current_issue.val.priority, new_priority,
                                  ProcAuthor(p)))

update_priority(p, issue_id, new_priority) ==
    Mutation(p, "update_priority", issue_id,
             update_priority_outcome(p, issue_id, new_priority))

update_created_by_outcome(p, issue_id, new_created_by) ==
    LET current_issue == get_issue(Repo, issue_id) IN
    IF ~current_issue.ok THEN Return(current_issue.err)
    ELSE IF created_by_unchanged(current_issue.val, new_created_by)
    THEN Return("Ok")
    ELSE Proceed(created_by_changed(current_issue.val.created_by,
                                    new_created_by, ProcAuthor(p)))

update_created_by(p, issue_id, new_created_by) ==
    Mutation(p, "update_created_by", issue_id,
             update_created_by_outcome(p, issue_id, new_created_by))

\* The second read of the issue ref in every mutation: the parent of the
\* new commit and the expected value of the ref update.
get_issue_head_commit(p) ==
    /\ proc[p].pc = "read_head"
    /\ LET head == read_ref(Repo, issue_ref_name(proc[p].issue_id))
       IN  IF head = NoOid
           THEN Finish(p, "IssueNotFound")
           ELSE proc' = [proc EXCEPT ![p].parent = <<head>>,
                                     ![p].pc = "write_objects"]
    /\ UNCHANGED <<refs, locks, odb, allocCount, ops>>
    /\ Outside(p)

----------------------------------------------------------------------------
(* The system *)

\* The calls a process can make, and the steps inside a call.
Call(p) ==
    \/ \E t \in InitialTitles, d \in InitialDescriptions : create_issue(p, t, d)
    \/ \E i \in IssueIds :
        \/ \E s \in Statuses : update_issue_status(p, i, s)
        \/ \E c \in Contents : add_comment(p, i, c)
        \/ \E l \in Labels : add_label(p, i, l)
        \/ \E l \in Labels : remove_label(p, i, l)
        \/ \E t \in Titles : update_title(p, i, t)
        \/ \E a \in AssigneeOptions : update_assignee(p, i, a)
        \/ \E a \in AssigneeLists : update_assignees(p, i, a)
        \/ \E d \in Descriptions : update_description(p, i, d)
        \/ \E r \in Priorities : update_priority(p, i, r)
        \/ \E c \in Identities : update_created_by(p, i, c)

Step(p) ==
    \/ increment_read_ref(p)
    \/ transaction_prepare(p)
    \/ transaction_commit(p)
    \/ append_write_objects(p)
    \/ \E failing \in {"blob", "tree", "commit"} : append_write_fails(p, failing)
    \/ get_issue_head_commit(p)

Next ==
    \E p \in Procs :
        \/ ops < MaxOps /\ Call(p)
        \/ Step(p)

Spec == Init /\ [][Next]_vars

\* The allocator alone: concurrent create_issue calls on a new repository.
AllocStep(p) ==
    \/ increment_read_ref(p)
    \/ transaction_prepare(p)
    \/ transaction_commit(p)
    \/ append_write_objects(p)
    \/ \E failing \in {"blob", "tree", "commit"} : append_write_fails(p, failing)

\* Sequential runs: an operation is called only when no operation is
\* running.
NextSeq ==
    \E p \in Procs :
        \/ /\ ops < MaxOps
           /\ \A q \in Procs : proc[q].pc = "idle"
           /\ Call(p)
        \/ Step(p)

SpecSeq == Init /\ [][NextSeq]_vars

NextAlloc ==
    \E p \in Procs :
        \/ /\ ops < MaxCreates
           /\ \E t \in InitialTitles, d \in InitialDescriptions :
                 create_issue(p, t, d)
        \/ AllocStep(p)

SpecAlloc == InitFresh /\ [][NextAlloc]_vars

\* Labels as the store receives them: sequences of characters, some with
\* blanks around or inside, one empty.
Whitespace == {" "}
RawLabels == {<<"b">>, <<" ", "b">>, <<"a", " ", "b">>, <<>>}

RECURSIVE trim_start(_)
\* str::trim_start, as used by validate_label_name
trim_start(label) ==
    IF label # <<>> /\ Head(label) \in Whitespace THEN trim_start(Tail(label))
    ELSE label

\* str::trim
trim(label) == Reverse(trim_start(Reverse(trim_start(label))))

\* The label mutations of the store alone, on an issue that exists.
LabelStep(p) ==
    \/ get_issue_head_commit(p)
    \/ append_write_objects(p)
    \/ \E failing \in {"blob", "tree", "commit"} : append_write_fails(p, failing)
    \/ transaction_prepare(p)
    \/ transaction_commit(p)

LabelCalls(p) ==
    \E i \in IssueIds :
        \/ \E l \in RawLabels : add_label(p, i, l)
        \/ \E l \in RawLabels : remove_label(p, i, l)

NextLabels ==
    \E p \in Procs :
        \/ ops < MaxOps /\ LabelCalls(p)
        \/ LabelStep(p)

SpecLabels == InitOpened /\ [][NextLabels]_vars

\* The status words a command line or an edit form can carry.
StatusTokens ==
    {"todo", "open", "TODO", "in-progress", "inprogress", "progress",
     "done", "closed", "complete", "DONE", "invalid"}

\* str::to_lowercase on those words
to_lowercase(s) ==
    CASE s = "TODO" -> "todo"
      [] s = "DONE" -> "done"
      [] OTHER -> s

parse_status(status_str) ==
    LET word == to_lowercase(status_str) IN
    IF word \in {"todo", "open"} THEN Ok("Todo")
    ELSE IF word \in {"in-progress", "inprogress", "progress"} THEN Ok("InProgress")
    ELSE IF word \in {"done", "closed", "complete"} THEN Ok("Done")
    ELSE Err("InvalidStatus")

\* impl FromStr for IssueStatus
from_str(s) ==
    LET word == to_lowercase(s) IN
    IF word = "todo" THEN Ok("Todo")
    ELSE IF word \in {"in-progress", "inprogress"} THEN Ok("InProgress")
    ELSE IF word = "done" THEN Ok("Done")
    ELSE Err("InvalidStatus")

\* A command returns an error before it calls a mutation of the store.
CliReject(p, command, result) ==
    /\ Start(p)
    /\ proc' = [proc EXCEPT ![p] = [Fresh(command, 0) EXCEPT !.result = result]]
    /\ ops' = ops + 1
    /\ UNCHANGED <<refs, locks, odb, allocCount>>
    /\ Outside(p)

handle_status(p, id, status) ==
    LET new_status == parse_status(status) IN
    IF ~new_status.ok THEN CliReject(p, "handle_status", new_status.err)
    ELSE update_issue_status(p, id, new_status.val)

\* handle_edit with --no-editor and --status only: the other fields of the
\* form are those of the issue read, so apply_changes compares the status
\* alone.
handle_edit_status(p, id, status) ==
    LET current_issue == get_issue(Repo, id)
        new_status == from_str(status)
    IN  IF ~current_issue.ok THEN CliReject(p, "handle_edit", current_issue.err)
        ELSE IF ~new_status.ok THEN CliReject(p, "handle_edit", new_status.err)
        ELSE IF current_issue.val.status # new_status.val
        THEN update_issue_status(p, id, new_status.val)
        ELSE Mutation(p, "handle_edit", id, Return("Ok"))

StatusCalls(p) ==
    \E id \in IssueIds, status \in StatusTokens :
        \/ handle_status(p, id, status)
        \/ handle_edit_status(p, id, status)

NextStatus ==
    \E p \in Procs :
        \/ ops < MaxOps /\ StatusCalls(p)
        \/ LabelStep(p)

SpecStatus == InitOpened /\ [][NextStatus]_vars

\* Repositories whose chain of issue 1 was not written by this program:
\* any sequence of up to MaxChain events, one commit each.
ChainEvents ==
    {created("T1", "D1", "alice"), status_changed("Todo", "InProgress", "bob"),
     label_added("bug", "bob")}

ChainsUpTo(n) == UNION {[1..m -> ChainEvents] : m \in 0..n}

RECURSIVE ChainOf(_, _)
\* the commit of event n on the chain of the events before it
ChainOf(events, n) ==
    EventCommit(events[n], IF n = 1 THEN <<>> ELSE <<ChainOf(events, n - 1)>>)

InitChains ==
    /\ now = 0
    /\ \E events \in ChainsUpTo(MaxChain) :
           /\ refs = [name \in RefNames |->
                       IF name = meta_ref THEN NextIdBlob(2)
                       ELSE IF name = issue_ref_name(1) /\ Len(events) > 0
                       THEN ChainOf(events, Len(events))
                       ELSE NoOid]
           /\ locks = [name \in RefNames |-> 0]
           /\ odb = {NextIdBlob(2)}
                      \cup {EventBlob(events[k]) : k \in 1..Len(events)}
                      \cup {EventTree(events[k]) : k \in 1..Len(events)}
                      \cup {ChainOf(events, k) : k \in 1..Len(events)}
           /\ proc = [p \in Procs |-> Fresh("none", 0)]
           /\ allocCount = [i \in IssueIds |-> 0]
           /\ ops = 0
           /\ applied = [i \in IssueIds |-> IF i = 1 THEN events ELSE <<>>]
           /\ NoRemote

ChainCalls(p) ==
    \E i \in IssueIds :
        \/ \E s \in Statuses : update_issue_status(p, i, s)
        \/ \E l \in Labels : add_label(p, i, l)

NextChains ==
    \E p \in Procs :
        \/ ops < MaxOps /\ ChainCalls(p)
        \/ LabelStep(p)

SpecChains == InitChains /\ [][NextChains]_vars

\* The wall clock, in seconds, moves on.  A second does not end between
\* the write of a commit and the update of the ref to it.
Tick ==
    /\ now < MaxClock
    /\ \A p \in Procs : proc[p].pc \notin {"ref_prepare", "ref_commit"}
    /\ now' = now + 1
    /\ UNCHANGED <<refs, locks, odb, proc, allocCount, ops, applied, remote, sync>>

\* The titles given while the clock runs: the current one and another.
ClockTitles == {"T1", "T2"}

ClockCalls(p) ==
    \E i \in IssueIds :
        \/ \E t \in ClockTitles : update_title(p, i, t)
        \/ \E s \in Statuses : update_issue_status(p, i, s)

NextClock ==
    \/ \E p \in Procs :
          \/ ops < MaxOps /\ ClockCalls(p)
          \/ LabelStep(p)
    \/ Tick

SpecClock == InitOpened /\ [][NextClock]_vars

\* The ten mutations on the issues that exist, two processes at a time:
\* the chains the replay has to read.
ReplayCalls(p) ==
    \E i \in IssueIds :
        /\ read_ref(Repo, issue_ref_name(i)) # NoOid
        /\ \/ \E s \in Statuses : update_issue_status(p, i, s)
           \/ \E c \in Contents : add_comment(p, i, c)
           \/ \E l \in Labels : add_label(p, i, l)
           \/ \E l \in Labels : remove_label(p, i, l)
           \/ \E t \in Titles : update_title(p, i, t)
           \/ \E a \in AssigneeOptions : update_assignee(p, i, a)
           \/ \E a \in AssigneeLists : update_assignees(p, i, a)
           \/ \E d \in Descriptions : update_description(p, i, d)
           \/ \E r \in Priorities : update_priority(p, i, r)
           \/ \E c \in Identities : update_created_by(p, i, c)

NextReplay ==
    \E p \in Procs :
        \/ ops < MaxOps /\ ReplayCalls(p)
        \/ LabelStep(p)

SpecReplay == InitOpened /\ [][NextReplay]_vars

TypeOK ==
    /\ \A name \in RefNames : refs[name] = NoOid \/ refs[name] \in odb
    /\ \A name \in RefNames : locks[name] \in Procs \cup {0}
    /\ ops \in Nat
    /\ sync.pc \in {"idle", "fetch", "compare", "act", "done"}
    /\ \A i \in IssueIds : Len(applied[i]) <= MaxOps + MaxChain

----------------------------------------------------------------------------
(* Sync *)

\* The sync code works on the refs under refs/git-issue.  A repository
\* holds such refs when they were fetched with git from a peer that writes
\* the wire namespace: the two issues below, with a root commit and one
\* commit after it made here (LocalNext) or by the peer (PeerNext).
SyncIssueIds == {1, 2}
wire_ref(issue_id) == <<"refs/git-issue", "issues", issue_id>>
wire_meta_ref == <<"refs/git-issue", "meta", 0>>
RootCommit == EventCommit(FirstEvent, <<>>)
LocalNext ==
    EventCommit(status_changed("Todo", "InProgress", "alice"), <<RootCommit>>)
PeerNext == EventCommit(title_changed("T1", "T2", "bob"), <<RootCommit>>)
WireObjects ==
    {RootCommit, LocalNext, PeerNext, NextIdBlob(2),
     EventBlob(FirstEvent), EventTree(FirstEvent),
     EventBlob(status_changed("Todo", "InProgress", "alice")),
     EventTree(status_changed("Todo", "InProgress", "alice")),
     EventBlob(title_changed("T1", "T2", "bob")),
     EventTree(title_changed("T1", "T2", "bob"))}

\* IssueStore::open on such a repository, and its remote.
InitSync ==
    /\ now = 0
    /\ \E heads \in [SyncIssueIds -> {NoOid, RootCommit, LocalNext}],
          counter \in {NoOid, NextIdBlob(2)} :
         refs = [name \in RefNames |->
                   IF name = wire_meta_ref THEN counter
                   ELSE IF name[1] = "refs/git-issue" /\ name[3] \in SyncIssueIds
                   THEN heads[name[3]]
                   ELSE NoOid]
    /\ \E heads \in [SyncIssueIds -> {NoOid, RootCommit, LocalNext, PeerNext}],
          present \in BOOLEAN :
         remote = [name \in RefNames |->
                     IF name = wire_meta_ref
                     THEN (IF present THEN refs[name] ELSE NoOid)
                     ELSE IF name[1] = "refs/git-issue" /\ name[3] \in SyncIssueIds
                     THEN heads[name[3]]
                     ELSE NoOid]
    /\ locks = [name \in RefNames |-> 0]
    /\ odb = WireObjects
    /\ proc = [p \in Procs |-> Fresh("none", 0)]
    /\ allocCount = [i \in IssueIds |-> 0]
    /\ ops = 0
    /\ applied = [i \in IssueIds |-> <<>>]
    /\ sync = NoSync

\* The assign and unassign commands.  An email is the identity it names;
\* "nomail" is an argument without an @.
EmailArgs ==
    LET words == {"alice", "bob", "nomail"} IN
    {<<>>} \cup {<<a>> : a \in words} \cup {<<a, b>> : a, b \in words}

\* handle_assign: the emails not among the assignees read are pushed onto
\* them, in the order of the arguments, and the new list is stored.
handle_assign(p, id, assignees) ==
    LET current_issue == get_issue(Repo, id)
        assignees_to_process ==
            IF assignees = <<>> THEN <<ProcAuthor(p)>> ELSE assignees
        successfully_added ==
            SelectSeq(assignees_to_process,
                      LAMBDA email : ~Contains(current_issue.val.assignees, email))
        valid_before(k) ==
            \A j \in 1..k : assignees_to_process[j] \in Identities
    IN  IF ~current_issue.ok THEN CliReject(p, "handle_assign", current_issue.err)
        ELSE IF ~valid_before(Len(assignees_to_process))
        THEN CliReject(p, "handle_assign", "Invalid email format")
        ELSE IF successfully_added # <<>>
        THEN update_assignees(p, id, current_issue.val.assignees \o successfully_added)
        ELSE Mutation(p, "handle_assign", id, Return("Ok"))

\* handle_unassign: the assignees named are removed, all of them when none
\* is named.
handle_unassign(p, id, assignees) ==
    LET current_issue == get_issue(Repo, id)
        successfully_removed ==
            IF assignees = <<>> THEN current_issue.val.assignees
            ELSE SelectSeq(assignees,
                           LAMBDA email : Contains(current_issue.val.assignees, email))
        remaining_assignees ==
            IF assignees = <<>> THEN <<>>
            ELSE SelectSeq(current_issue.val.assignees,
                           LAMBDA a : ~Contains(assignees, a))
    IN  IF ~current_issue.ok THEN CliReject(p, "handle_unassign", current_issue.err)
        ELSE IF current_issue.val.assignees = <<>>
        THEN Mutation(p, "handle_unassign", id, Return("Ok"))
        ELSE IF successfully_removed # <<>>
        THEN update_assignees(p, id, remaining_assignees)
        ELSE Mutation(p, "handle_unassign", id, Return("Ok"))

AssignCalls(p) ==
    \E id \in IssueIds, assignees \in EmailArgs :
        \/ handle_assign(p, id, assignees)
        \/ handle_unassign(p, id, assignees)

NextAssign ==
    \E p \in Procs :
        \/ ops < MaxOps /\ AssignCalls(p)
        \/ LabelStep(p)

SpecAssign == InitOpened /\ [][NextAssign]_vars

\* Repositories another writer has left: under the namespace the store
\* reads, a chain of issue 1 with trees of every shape and issue 2 absent
\* or well formed; refs of the same ids under the prefix the listing reads
\* (the issues in listed).
StrayEntry == [name |-> "notes.txt", oid |-> NextIdBlob(2), mode |-> "100644"]
TreeShapes == {"event", "stray", "both", "undecodable"}
ShapedTree(event, shape) ==
    CASE shape = "event" -> EventTree(event)
      [] shape = "stray" -> Tree(<<StrayEntry>>)
      [] shape = "both" -> Tree(<<StrayEntry>> \o EventTree(event).entries)
      [] shape = "undecodable" ->
            Tree(<<[name |-> "event.json", oid |-> NextIdBlob(2),
                    mode |-> "100644"]>>)

ForeignRoots ==
    {CommitObject(ShapedTree(FirstEvent, shape), <<>>, "alice") :
        shape \in TreeShapes}
      \cup {EventCommit(status_changed("Todo", "InProgress", "bob"), <<>>)}
ForeignSeconds ==
    {CommitObject(ShapedTree(status_changed("Todo", "InProgress", "bob"), shape),
                  <<root>>, "bob") :
        root \in ForeignRoots, shape \in {"event", "both"}}
ForeignHeads == {NoOid} \cup ForeignRoots \cup ForeignSeconds
ForeignObjects ==
    LET commits == ForeignRoots \cup ForeignSeconds
        trees == {c.tree : c \in commits}
    IN  commits \cup trees \cup {NextIdBlob(2)}
          \cup UNION {{t.entries[k].oid : k \in 1..Len(t.entries)} : t \in trees}

InitForeign ==
    /\ now = 0
    /\ \E head \in ForeignHeads, other \in {NoOid, RootCommit},
          listed \in SUBSET SyncIssueIds :
         refs = [name \in RefNames |->
                   IF name[2] = "meta" THEN NoOid
                   ELSE IF name[3] \notin SyncIssueIds THEN NoOid
                   ELSE IF name[1] = refs_namespace
                   THEN (IF name[3] = 1 THEN head ELSE other)
                   ELSE IF name[3] \in listed THEN RootCommit
                   ELSE NoOid]
    /\ locks = [name \in RefNames |-> 0]
    /\ odb = ForeignObjects
    /\ proc = [p \in Procs |-> Fresh("none", 0)]
    /\ allocCount = [i \in IssueIds |-> 0]
    /\ ops = 0
    /\ applied = [i \in IssueIds |-> <<>>]
    /\ NoRemote

SpecForeign == InitForeign /\ [][NextChains]_vars

\* A step of a sync changes no local ref and no object.
LocalUnchanged ==
    UNCHANGED <<refs, locks, odb, proc, allocCount, ops, applied, now>>

\* RefComparisonResult
UpToDate == [kind |-> "UpToDate"]
NewRef == [kind |-> "NewRef"]
LocallyDeleted == [kind |-> "LocallyDeleted"]
FastForward(local_commits) ==
    [kind |-> "FastForward", local_commits |-> local_commits]
Behind(remote_commits) == [kind |-> "Behind", remote_commits |-> remote_commits]
Diverged(local_commits, remote_commits) ==
    [kind |-> "Diverged", local_commits |-> local_commits,
     remote_commits |-> remote_commits]

\* SyncRef (issue_id is derived from ref_name and left out)
SyncRef(ref_name, local_oid, remote_oid, comparison) ==
    [ref_name |-> ref_name, local_oid |-> local_oid,
     remote_oid |-> remote_oid, comparison |-> comparison]

\* The inputs of a sync: the flags and the optional list of issue ids.
SyncArgs == [force : BOOLEAN, force_without_lease : BOOLEAN, dry_run : BOOLEAN]
SpecificIssues == {<<>>, <<<<1>>>>, <<<<3>>>>}

RECURSIVE reachable_commits(_)
\* The commits reachable from a commit.
reachable_commits(oid) ==
    IF oid.kind # "commit" THEN {}
    ELSE {oid} \cup (IF Len(oid.parents) = 0 THEN {}
                     ELSE reachable_commits(oid.parents[1]))

\* GitRepository::compare_refs: the number of commits reachable from one
\* end and not from the other.
compare_refs(local, remote_oid) ==
    [local_commits |->
        Cardinality(reachable_commits(local) \ reachable_commits(remote_oid)),
     remote_commits |->
        Cardinality(reachable_commits(remote_oid) \ reachable_commits(local))]

\* GitRepository::fetch_refs_from_remote: the current value of the named
\* refs on the remote; NoOid stands for a name that is left out of the map.
fetch_refs_from_remote(names) ==
    [name \in RefNames |->
        IF Contains(names, name) THEN remote[name] ELSE NoOid]

\* GitRepository::push_ref_to_remote: without force the remote takes the
\* local value when its ref is absent or an ancestor of that value; with
\* force it takes it when its ref still has the value last fetched (the
\* lease).
push_accepted(name, force) ==
    IF force THEN remote[name] = sync.remote_refs[name]
    ELSE \/ remote[name] = NoOid
         \/ remote[name] \in reachable_commits(read_ref(Repo, name))
         \/ remote[name] = read_ref(Repo, name)

\* discover_sync_refs and the first lines of sync_to_remote: the refs of
\* the given issues, each of which must exist, or every issue ref and then
\* every meta ref.
RECURSIVE NamesOf(_)
NamesOf(ids) ==
    IF ids = <<>> THEN <<>> ELSE <<wire_ref(Head(ids))>> \o NamesOf(Tail(ids))

RECURSIVE InOrder(_)
\* the refs of a listing, issue refs by id
InOrder(names) ==
    IF names = {} THEN <<>>
    ELSE LET first == CHOOSE n \in names : \A m \in names : n[3] <= m[3]
         IN  <<first>> \o InOrder(names \ {first})

discover_sync_refs(specific_issues) ==
    IF specific_issues # <<>>
    THEN IF \E k \in 1..Len(specific_issues[1]) :
              ~ref_exists(Repo, wire_ref(specific_issues[1][k]))
         THEN Err("IssueNotFound")
         ELSE Ok(NamesOf(specific_issues[1]))
    ELSE Ok(InOrder(list_issue_refs(Repo)) \o InOrder(list_meta_refs(Repo)))

\* handle_sync up to the fetch.
handle_sync(args, issues) ==
    /\ LocalUnchanged
    /\ sync.pc = "idle"
    /\ LET run == [NoSync EXCEPT !.engine = "handle_sync",
                                 !.force = args.force,
                                 !.force_without_lease = args.force_without_lease,
                                 !.dry_run = args.dry_run]
           found == discover_sync_refs(issues)
       IN  sync' =
             IF args.force /\ args.force_without_lease
             THEN [run EXCEPT !.pc = "done", !.result = "Err(both force flags)"]
             ELSE IF ~found.ok
             THEN [run EXCEPT !.pc = "done", !.result = "Err(issue does not exist)"]
             ELSE IF found.val = <<>>
             THEN [run EXCEPT !.pc = "done", !.result = "Ok"]
             ELSE [run EXCEPT !.refs_to_sync = found.val,
                              !.pc = IF args.dry_run THEN "compare" ELSE "fetch"]
    /\ UNCHANGED remote

\* sync_to_remote up to the fetch.
sync_to_remote(force, issues) ==
    /\ LocalUnchanged
    /\ sync.pc = "idle"
    /\ LET run == [NoSync EXCEPT !.engine = "sync_to_remote", !.force = force]
           found == discover_sync_refs(issues)
       IN  sync' =
             IF ~found.ok
             THEN [run EXCEPT !.pc = "done", !.result = "Err(IssueNotFound)"]
             ELSE IF found.val = <<>>
             THEN [run EXCEPT !.pc = "done", !.result = "Ok"]
             ELSE [run EXCEPT !.refs_to_sync = found.val, !.pc = "fetch"]
    /\ UNCHANGED remote

\* fetch_remote_refs / fetch_refs_from_remote
sync_fetch ==
    /\ LocalUnchanged
    /\ sync.pc = "fetch"
    /\ sync' = [sync EXCEPT
                  !.remote_refs = fetch_refs_from_remote(sync.refs_to_sync),
                  !.pc = IF sync.engine = "handle_sync" THEN "compare" ELSE "act"]
    /\ UNCHANGED remote

\* compare_refs of sync.rs for one ref: the local oid is the placeholder
\* string, which no fetched oid equals.
placeholder_local_oid == [kind |-> "placeholder_local_oid"]
cli_compare_ref(ref_name, remote_refs) ==
    LET local_oid == placeholder_local_oid
        remote_oid == remote_refs[ref_name]
    IN  SyncRef(ref_name, local_oid, remote_oid,
                IF remote_oid = NoOid THEN NewRef
                ELSE IF local_oid = remote_oid THEN UpToDate
                ELSE FastForward(1))

\* The classification of sync_to_remote for one ref.
store_compare_ref(ref_name, remote_refs) ==
    LET local_oid == read_ref(Repo, ref_name)
        remote_oid == remote_refs[ref_name]
        counts == compare_refs(local_oid, remote_oid)
    IN  SyncRef(ref_name, local_oid, remote_oid,
                IF local_oid # NoOid /\ remote_oid = NoOid THEN NewRef
                ELSE IF local_oid # NoOid /\ local_oid = remote_oid THEN UpToDate
                ELSE IF local_oid # NoOid
                THEN (IF counts.remote_commits = 0
                      THEN FastForward(counts.local_commits)
                      ELSE IF counts.local_commits = 0
                      THEN Behind(counts.remote_commits)
                      ELSE Diverged(counts.local_commits, counts.remote_commits))
                ELSE LocallyDeleted)

\* handle_sync from compare_refs to the call of perform_sync.
handle_sync_compare ==
    /\ LocalUnchanged
    /\ sync.pc = "compare"
    /\ LET sync_refs == [k \in 1..Len(sync.refs_to_sync) |->
                           cli_compare_ref(sync.refs_to_sync[k], sync.remote_refs)]
           NeedsSync(r) == r.comparison # UpToDate
           refs_needing_sync == SelectSeq(sync_refs, NeedsSync)
           Conflicted(r) == r.comparison.kind \in {"Diverged", "Behind"}
           conflicted_refs == SelectSeq(refs_needing_sync, Conflicted)
           compared == [sync EXCEPT !.sync_refs = sync_refs,
                                    !.refs_needing_sync = refs_needing_sync]
       IN  sync' =
             IF refs_needing_sync = <<>>
             THEN [compared EXCEPT !.pc = "done", !.result = "Ok"]
             ELSE IF /\ conflicted_refs # <<>>
                     /\ ~sync.force
                     /\ ~sync.force_without_lease
             THEN [compared EXCEPT !.pc = "done",
                                   !.result = "Err(cannot sync due to conflicts)"]
             ELSE IF sync.dry_run
             THEN [compared EXCEPT !.pc = "done", !.result = "Ok"]
             ELSE [compared EXCEPT !.pc = "act"]
    /\ UNCHANGED remote

\* A variant in which a rejected push ends the run with the error.
Push_aborts(run, ref_name, force) ==
    /\ remote' = IF push_accepted(ref_name, force)
                 THEN [remote EXCEPT ![ref_name] = read_ref(Repo, ref_name)]
                 ELSE remote
    /\ sync' = IF push_accepted(ref_name, force)
               THEN [run EXCEPT
                       !.pushes = Append(@, [ref_name |-> ref_name, force |-> force]),
                       !.pushed_refs = Append(@, ref_name)]
               ELSE [sync EXCEPT
                       !.pushes = Append(@, [ref_name |-> ref_name, force |-> force]),
                       !.failed_refs = Append(@, ref_name),
                       !.pc = "done", !.result = "Err"]

\* One call of push_ref_to_remote and the summary entry made from its
\* outcome.
Push(run, ref_name, force) ==
    /\ remote' = IF push_accepted(ref_name, force)
                 THEN [remote EXCEPT ![ref_name] = read_ref(Repo, ref_name)]
                 ELSE remote
    /\ sync' = [run EXCEPT
                  !.pushes = Append(@, [ref_name |-> ref_name, force |-> force]),
                  !.pushed_refs = IF push_accepted(ref_name, force)
                                  THEN Append(@, ref_name) ELSE @,
                  !.failed_refs = IF push_accepted(ref_name, force)
                                  THEN @ ELSE Append(@, ref_name)]

\* The state of the run after the ref at position k: the loop goes on or
\* the sync returns Ok.
Advance(total) ==
    IF sync.k = total THEN [sync EXCEPT !.k = @ + 1, !.pc = "done", !.result = "Ok"]
    ELSE [sync EXCEPT !.k = @ + 1]

\* One turn of the loop of perform_sync.
perform_sync ==
    /\ LocalUnchanged
    /\ sync.pc = "act"
    /\ sync.engine = "handle_sync"
    /\ LET sync_ref == sync.refs_needing_sync[sync.k]
           run == Advance(Len(sync.refs_needing_sync))
           use_lease == sync.force /\ ~sync.force_without_lease
       IN  IF sync_ref.comparison.kind \in {"FastForward", "NewRef"}
           THEN Push(run, sync_ref.ref_name, FALSE)
           ELSE IF sync_ref.comparison.kind \in {"Diverged", "Behind"}
           THEN Push(run, sync_ref.ref_name, ~use_lease)
           ELSE /\ sync' = [run EXCEPT !.skipped_refs = Append(@, sync_ref.ref_name)]
                /\ UNCHANGED remote

\* A loop that records the refs it pushes or finds in conflict and leaves
\* the refs it skips out of the summary.
sync_to_remote_ref_unrecorded ==
    /\ LocalUnchanged
    /\ sync.pc = "act"
    /\ sync.engine = "sync_to_remote"
    /\ LET ref_name == sync.refs_to_sync[sync.k]
           sync_ref == store_compare_ref(ref_name, sync.remote_refs)
           run == [Advance(Len(sync.refs_to_sync)) EXCEPT
                     !.sync_refs = Append(@, sync_ref)]
           kind == sync_ref.comparison.kind
       IN  IF kind \in {"FastForward", "NewRef"}
           THEN Push(run, ref_name, FALSE)
           ELSE IF kind \in {"Diverged", "Behind"} /\ sync.force
           THEN Push(run, ref_name, TRUE)
           ELSE /\ sync' = IF kind \in {"Diverged", "Behind"}
                           THEN [run EXCEPT !.conflicts = Append(@, ref_name)]
                           ELSE run
                /\ UNCHANGED remote

\* One turn of the loop of sync_to_remote.
sync_to_remote_ref ==
    /\ LocalUnchanged
    /\ sync.pc = "act"
    /\ sync.engine = "sync_to_remote"
    /\ LET ref_name == sync.refs_to_sync[sync.k]
           sync_ref == store_compare_ref(ref_name, sync.remote_refs)
           run == [Advance(Len(sync.refs_to_sync)) EXCEPT
                     !.sync_refs = Append(@, sync_ref)]
           kind == sync_ref.comparison.kind
       IN  IF kind \in {"FastForward", "NewRef"}
           THEN Push(run, ref_name, FALSE)
           ELSE IF kind \in {"Diverged", "Behind"} /\ sync.force
           THEN Push(run, ref_name, TRUE)
           ELSE /\ sync' = IF kind \in {"Diverged", "Behind"}
                           THEN [run EXCEPT !.conflicts = Append(@, ref_name)]
                           ELSE [run EXCEPT !.skipped_refs = Append(@, ref_name)]
                /\ UNCHANGED remote

\* Another participant moves an issue ref of the remote after the fetch.
remote_advance(issue_id) ==
    /\ LocalUnchanged
    /\ sync.pc \in {"compare", "act"}
    /\ ~sync.dry_run
    /\ ~sync.advanced
    /\ remote[wire_ref(issue_id)] \in {NoOid, RootCommit}
    /\ \E next \in {LocalNext, PeerNext} :
         remote' = [remote EXCEPT ![wire_ref(issue_id)] =
                      IF @ = NoOid THEN RootCommit ELSE next]
    /\ sync' = [sync EXCEPT !.advanced = TRUE]

NextSync ==
    \/ \E args \in SyncArgs, issues \in SpecificIssues : handle_sync(args, issues)
    \/ \E force \in BOOLEAN, issues \in SpecificIssues :
         sync_to_remote(force, issues)
    \/ sync_fetch
    \/ handle_sync_compare
    \/ perform_sync
    \/ sync_to_remote_ref
    \/ \E issue_id \in SyncIssueIds : remote_advance(issue_id)

SpecSync == InitSync /\ [][NextSync]_vars

----------------------------------------------------------------------------
(* Properties *)

IssueHead(i) == refs[issue_ref_name(i)]

\* The last call of p reached the ref update of append_event and returned.
Appended(p) == proc[p].pc = "idle" /\ proc[p].event # NoEvent

\* The commit that call wrote.
LastCommit(p) == EventCommit(proc[p].event, proc[p].parent)

SameParent(p, q) ==
    /\ p # q
    /\ Appended(p) /\ Appended(q)
    /\ proc[p].issue_id = proc[q].issue_id
    /\ proc[p].parent = proc[q].parent

\* C1: of two processes that appended to the same issue with the same
\* expected parent, exactly one succeeded, and the issue ref points at the
\* commit of the one that succeeded.
C1_ExactlyOneAppendWins ==
    \A p, q \in Procs :
        SameParent(p, q) =>
            /\ (proc[p].result = "Ok") # (proc[q].result = "Ok")
            /\ proc[p].result = "Ok" =>
                 IssueHead(proc[p].issue_id) = LastCommit(p)

C1_Witness ==
    \E p, q \in Procs :
        /\ SameParent(p, q)
        /\ proc[p].parent # <<>>
        /\ proc[p].result = "Ok"
        /\ proc[q].result = "Git(ReferenceUpdateFailed)"

\* C2: two processes read issue 1 at the head H of a chain of length 1 and
\* call update_title with different titles: one succeeds, the other returns
\* ConcurrentModification(1), the ref is the commit of the one that
\* succeeded and the chain has length 2.
C2_ConcurrentTitleUpdate ==
    \A p, q \in Procs :
        ( /\ p # q
          /\ Appended(p) /\ Appended(q)
          /\ proc[p].op = "update_title" /\ proc[q].op = "update_title"
          /\ proc[p].issue_id = 1 /\ proc[q].issue_id = 1
          /\ proc[p].seen = proc[q].seen
          /\ proc[p].seen # <<>> /\ proc[p].seen[1].parents = <<>>
          /\ proc[p].event.new_title # proc[q].event.new_title )
        => \E w, l \in {p, q} :
               /\ w # l
               /\ proc[w].result = "Ok"
               /\ proc[l].result = "ConcurrentModification"
               /\ IssueHead(1) = LastCommit(w)
               /\ Len(get_issue_events(Repo, 1).val) = 2

\* The ids create_issue calls got from the allocator so far.
RECURSIVE ReturnedCount(_)
ReturnedCount(n) == IF n = 0 THEN 0 ELSE allocCount[n] + ReturnedCount(n - 1)

\* C3: the M ids the allocator has returned, starting from a counter of 1,
\* are pairwise distinct and are the ids 1..M.
C3_AllocatedIdsDistinct ==
    \A i \in IssueIds :
        allocCount[i] = IF i <= ReturnedCount(MaxIssueId) THEN 1 ELSE 0

\* The value of the counter: what get_next_issue_id returns.
CounterValue(repo) == get_next_issue_id(repo).val

\* C4: no step decreases the value of the counter.
C4_CounterNeverDecreases ==
    [][CounterValue(Repo') >= CounterValue(Repo)]_vars

\* The ref update that ends an append finds the ref moved away from the
\* expected parent.
CasFails(p) ==
    /\ proc[p].pc = "ref_commit"
    /\ proc[p].parent # <<>>
    /\ IssueHead(proc[p].issue_id) # proc[p].parent[1]
    /\ proc'[p].pc = "idle"

\* C5: when the compare-and-swap at the end of an append fails, the
\* mutation returns ConcurrentModification(id) and the ref is unchanged.
C5_CasFailureIsConcurrentModification ==
    [][\A p \in Procs :
         CasFails(p) => /\ proc'[p].result = "ConcurrentModification"
                        /\ refs' = refs]_vars

\* The call of p returns success and nothing is written.
NoOpReturn(p) ==
    /\ proc'[p].pc = "idle"
    /\ proc'[p].result = "Ok"
    /\ refs' = refs
    /\ odb' = odb

\* The current aggregate of issue i satisfies Test.
Currently(i, Test(_)) ==
    get_issue(Repo, i).ok /\ Test(get_issue(Repo, i).val)

\* The step is a call of operation op by p on issue i.
Calls(p, op, i) ==
    /\ ops' = ops + 1
    /\ proc[p].pc = "idle"
    /\ proc'[p].op = op
    /\ proc'[p].issue_id = i

\* A call of p whose requested value equals the current value.
NoOpCall(p, i) ==
    \/ /\ Calls(p, "update_issue_status", i)
       /\ \E v \in Statuses :
            /\ Currently(i, LAMBDA c : c.status = v)
            /\ update_issue_status(p, i, v)
    \/ /\ Calls(p, "add_label", i)
       /\ \E v \in Labels :
            /\ Currently(i, LAMBDA c : Contains(c.labels, v))
            /\ add_label(p, i, v)
    \/ /\ Calls(p, "remove_label", i)
       /\ \E v \in Labels :
            /\ Currently(i, LAMBDA c : ~Contains(c.labels, v))
            /\ remove_label(p, i, v)
    \/ /\ Calls(p, "update_title", i)
       /\ \E v \in Titles :
            /\ Currently(i, LAMBDA c : c.title = v)
            /\ update_title(p, i, v)
    \/ /\ Calls(p, "update_description", i)
       /\ \E v \in Descriptions :
            /\ Currently(i, LAMBDA c : c.description = v)
            /\ update_description(p, i, v)
    \/ /\ Calls(p, "update_assignee", i)
       /\ \E v \in AssigneeOptions :
            /\ Currently(i, LAMBDA c : current_assignee(c) = v)
            /\ update_assignee(p, i, v)
    \/ /\ Calls(p, "update_assignees", i)
       /\ \E v \in AssigneeLists :
            /\ Currently(i, LAMBDA c : c.assignees = v)
            /\ update_assignees(p, i, v)
    \/ /\ Calls(p, "update_priority", i)
       /\ \E v \in Priorities :
            /\ Currently(i, LAMBDA c : c.priority = v)
            /\ update_priority(p, i, v)
    \/ /\ Calls(p, "update_created_by", i)
       /\ \E v \in Identities :
            /\ Currently(i, LAMBDA c : c.created_by = v)
            /\ update_created_by(p, i, v)

\* The call of q that repeats the mutation which appended event e to issue i.
RepeatCall(q, i, e) ==
    \/ e.kind = "StatusChanged" /\ update_issue_status(q, i, e.to)
    \/ e.kind = "LabelAdded" /\ add_label(q, i, e.label)
    \/ e.kind = "LabelRemoved" /\ remove_label(q, i, e.label)
    \/ e.kind = "TitleChanged" /\ update_title(q, i, e.new_title)
    \/ e.kind = "DescriptionChanged"
         /\ update_description(q, i, e.new_description)
    \/ e.kind = "AssigneeChanged" /\ update_assignee(q, i, e.new_assignee)
    \/ e.kind = "AssigneesChanged" /\ update_assignees(q, i, e.new_assignees)
    \/ e.kind = "PriorityChanged" /\ update_priority(q, i, e.new_priority)
    \/ e.kind = "CreatedByChanged"
         /\ update_created_by(q, i, e.new_created_by)

\* The last call of p appended its event and that commit is still the head.
AppendedHead(p) ==
    /\ Appended(p)
    /\ proc[p].result = "Ok"
    /\ IssueHead(proc[p].issue_id) = LastCommit(p)

\* C6: a mutation whose requested value equals the current value returns
\* success and leaves the ref and the object store as they are; so the
\* same mutation called again right after it appended its event appends
\* nothing.
C6_NoOpMutationWritesNothing ==
    [][\A p \in Procs :
         \A i \in {proc'[p].issue_id} \cap IssueIds :
            /\ NoOpCall(p, i) => NoOpReturn(p)
            /\ \A q \in Procs :
                 ( /\ Calls(p, proc[q].op, i)
                   /\ AppendedHead(q)
                   /\ proc[q].op # "create_issue"
                   /\ proc[q].issue_id = i
                   /\ RepeatCall(p, i, proc[q].event) )
                 => NoOpReturn(p)]_vars

C6_Witness ==
    \E p, q \in Procs :
        /\ p # q
        /\ AppendedHead(p)
        /\ proc[p].op = "update_issue_status"
        /\ proc[q].pc = "idle"
        /\ proc[q].op = "update_issue_status"
        /\ proc[q].issue_id = proc[p].issue_id
        /\ proc[q].seen = <<LastCommit(p)>>
        /\ proc[q].event = NoEvent
        /\ proc[q].result = "Ok"

\* The events that record a change of a field of the aggregate.
ChangeKinds == EventKinds \ {"Created", "CommentAdded"}

\* Event k of the chain changes the aggregate folded from the events
\* before it.
ChangesState(i, events, k) ==
    LET before == from_events(i, SubSeq(events, 1, k - 1))
        after == from_events(i, SubSeq(events, 1, k))
    IN  before.ok /\ after.ok /\ after.val # before.val

\* C7: every change event of every chain changes the aggregate state when
\* it is folded onto the state of its parent.
C7_EveryEventChangesState ==
    \A i \in IssueIds :
        LET events == get_issue_events(Repo, i) IN
        events.ok =>
            \A k \in 2..Len(events.val) :
                events.val[k].kind \in ChangeKinds =>
                    ChangesState(i, events.val, k)

\* C8: the k-th comment of issue i has the id "{i}-{k}".
C8_CommentIdsCountUp ==
    \A i \in IssueIds :
        LET issue == get_issue(Repo, i) IN
        issue.ok =>
            \A k \in 1..Len(issue.val.comments) :
                issue.val.comments[k].id = CommentId(i, k)

\* C9: a chain only grows: an issue ref that exists goes on existing, and
\* the events read before a step are a prefix of the events read after it.
\* (The reads are functions of the repository, so only the steps that write
\* to it have anything to show.)
C9_ChainAppendOnly ==
    [][\/ Repo' = Repo
       \/ \A i \in IssueIds :
            LET before == get_issue_events(Repo, i)
                after == get_issue_events(Repo', i)
            IN  /\ IssueHead(i) # NoOid => IssueHead(i)' # NoOid
                /\ before.ok => after.ok /\ IsPrefix(before.val, after.val)]_vars

C9_Witness ==
    \E p \in Procs :
        /\ AppendedHead(p)
        /\ proc[p].parent # <<>>
        /\ get_issue_events(Repo, proc[p].issue_id).ok
        /\ Len(get_issue_events(Repo, proc[p].issue_id).val) >= 3

\* The step is the ref update that ends the append of p to issue i, and it
\* succeeds.
FinalRefUpdate(p, i) ==
    /\ proc[p].pc = "ref_commit"
    /\ proc[p].issue_id = i
    /\ proc'[p].pc = "idle"
    /\ proc'[p].result = "Ok"
    /\ IssueHead(i)' = EventCommit(proc[p].event, proc[p].parent)

\* C10: what get_issue_events and get_issue return for an issue changes
\* only in the step that is the successful ref update at the end of an
\* append to it; an append that is in progress, was aborted or failed is
\* not seen.
C10_VisibleOnlyThroughRefUpdate ==
    [][\/ Repo' = Repo
       \/ \A i \in IssueIds :
            LET before == get_issue_events(Repo, i)
                after == get_issue_events(Repo', i)
            IN  \/ /\ after = before
                   /\ get_issue(Repo', i) = get_issue(Repo, i)
                \/ \E p \in Procs :
                     /\ FinalRefUpdate(p, i)
                     /\ before.ok /\ after.ok
                     /\ after.val = Append(before.val, proc[p].event)]_vars

\* An append has written its commit and has not updated the ref, and one
\* has failed after writing objects.
C10_Witness ==
    \E p, q \in Procs :
        /\ p # q
        /\ proc[p].pc \in {"ref_prepare", "ref_commit"}
        /\ EventCommit(proc[p].event, proc[p].parent) \in odb
        /\ IssueHead(proc[p].issue_id) # EventCommit(proc[p].event, proc[p].parent)
        /\ proc[q].pc = "idle"
        /\ proc[q].result \in {"Git(ObjectCreationFailed)",
                               "Git(ReferenceUpdateFailed)"}

\* ---------------------------------------------------------------------
\* Reading an issue and replaying its listed events

\* The aggregate a Created event stands for.
Opened(issue_id, event) ==
    [id |-> issue_id, title |-> event.title,
     description |-> event.description, status |-> "Todo",
     priority |-> "None", labels |-> <<>>, comments |-> <<>>,
     created_by |-> event.author, assignees |-> <<>>,
     created_at |-> event.timestamp, updated_at |-> event.timestamp]

RECURSIVE FoldLeft(_, _, _)
\* The left fold of the first n events: the state after event n is the
\* state after event n - 1 with event n applied.
FoldLeft(issue_id, events, n) ==
    IF n = 1 THEN Ok(Opened(issue_id, events[1]))
    ELSE LET before == FoldLeft(issue_id, events, n - 1)
         IN  IF before.ok THEN apply_event(before.val, events[n]) ELSE before

\* C11: for every issue that has events, get_issue succeeds and returns
\* the left fold of the events get_issue_events lists, oldest first,
\* starting from the Created event.
C11_ReadEqualsReplay ==
    \A i \in IssueIds :
        LET events == get_issue_events(Repo, i) IN
        (events.ok /\ Len(events.val) > 0) =>
            /\ events.val[1].kind = "Created"
            /\ get_issue(Repo, i) = FoldLeft(i, events.val, Len(events.val))
            /\ get_issue(Repo, i).ok

\* An issue whose chain holds a mutation after its Created event and whose
\* aggregate differs from the one the Created event alone stands for.
C11_Witness ==
    \E i \in IssueIds :
        LET events == get_issue_events(Repo, i) IN
        /\ events.ok
        /\ Len(events.val) >= 2
        /\ get_issue(Repo, i).ok
        /\ get_issue(Repo, i).val # Opened(i, events.val[1])

\* ---------------------------------------------------------------------
\* The chain of an issue and the mutations that returned success

RECURSIVE Lineage(_)
\* The commits of a chain, from the given commit back along the parents.
Lineage(oid) ==
    IF oid.kind # "commit" THEN <<>>
    ELSE <<oid>> \o (IF Len(oid.parents) = 0 THEN <<>>
                     ELSE Lineage(oid.parents[1]))

\* C12: after create_issue and N mutations of the issue that returned
\* success and appended an event, the chain has exactly N + 1 commits and
\* get_issue_events returns the N + 1 events in the order the operations
\* returned.
C12_ChainCountsSuccessfulMutations ==
    \A i \in IssueIds :
        /\ Len(Lineage(IssueHead(i))) = Len(applied[i])
        /\ get_issue_events(Repo, i) = Ok(applied[i])

\* An issue created and then mutated twice, the mutations being of two
\* different kinds.
C12_Witness ==
    \E i \in IssueIds :
        /\ Len(applied[i]) = 3
        /\ applied[i][1].kind = "Created"
        /\ applied[i][2].kind # applied[i][3].kind
        /\ Len(Lineage(IssueHead(i))) = 3

\* C13: every chain an issue ref points to has exactly one Created event,
\* held by the root commit, which has no parent; every other commit has
\* exactly one parent, the commit before it, and holds an event that is
\* not Created; the author and the committer of each commit are the author
\* of its event.
C13_ChainShape ==
    \A i \in IssueIds :
        IssueHead(i) # NoOid =>
            LET events == get_issue_events(Repo, i)
                commits == Reverse(Lineage(IssueHead(i)))
            IN  /\ events.ok
                /\ Len(events.val) = Len(commits)
                /\ \A k \in 1..Len(commits) :
                      /\ (events.val[k].kind = "Created") = (k = 1)
                      /\ commits[k].parents =
                            IF k = 1 THEN <<>> ELSE <<commits[k - 1]>>
                      /\ commits[k].author = events.val[k].author
                      /\ commits[k].committer = events.val[k].author

\* A chain of three commits written by two different authors.
C13_Witness ==
    \E i \in IssueIds :
        LET commits == Lineage(IssueHead(i)) IN
        /\ Len(commits) = 3
        /\ commits[1].author # commits[2].author
        /\ Len(commits[1].parents) = 1
        /\ Len(commits[3].parents) = 0

\* ---------------------------------------------------------------------
\* The reference namespace

\* create_issue has returned to p with the id of the issue it made.
Created(p) ==
    /\ proc[p].pc = "idle"
    /\ proc[p].op = "create_issue"
    /\ proc[p].result = "Ok"

\* C14: the ref create_issue writes for id n is refs/git-issue/issues/n and
\* the counter lives under refs/git-issue/meta, so after create_issue has
\* returned n, n is in list_issue_ids, the issue is in list_issues and its
\* ref is among the refs the sync enumerates.
C14_NamespaceConsistent ==
    \A p \in Procs :
        Created(p) =>
            LET n == proc[p].issue_id IN
            /\ issue_ref_name(n) = <<"refs/git-issue", "issues", n>>
            /\ meta_ref = <<"refs/git-issue", "meta", 0>>
            /\ Contains(list_issue_ids(Repo), n)
            /\ list_issues(Repo).ok
            /\ \E k \in 1..Len(list_issues(Repo).val) :
                  list_issues(Repo).val[k].id = n
            /\ issue_ref_name(n) \in list_issue_refs(Repo)

\* ---------------------------------------------------------------------
\* The allocator in a sequential run

\* p is at the counter update of increment_issue_id and takes its step.
Allocates(p) == proc[p].pc = "alloc_commit" /\ proc'[p] # proc[p]

\* C16: in a sequential run get_next_issue_id returns 1 when the counter
\* ref is absent; increment_issue_id succeeds and returns the value v that
\* get_next_issue_id returned just before it, and get_next_issue_id just
\* after it returns v + 1.
C16_SequentialPeekAllocate ==
    [][/\ read_ref(Repo, meta_ref) = NoOid => get_next_issue_id(Repo) = Ok(1)
       /\ \A p \in Procs :
             Allocates(p) =>
                 LET v == get_next_issue_id(Repo) IN
                 /\ v.ok
                 /\ proc'[p].pc = "write_objects"
                 /\ proc'[p].issue_id = v.val
                 /\ proc[p].current_id = v.val
                 /\ get_next_issue_id(Repo') = Ok(v.val + 1)]_vars

\* Two allocations in a row: the second returned 2 and the counter reads 3.
C16_Witness ==
    \E p \in Procs :
        /\ proc[p].op = "create_issue"
        /\ proc[p].pc = "write_objects"
        /\ proc[p].issue_id = 2
        /\ allocCount[1] = 1
        /\ get_next_issue_id(Repo) = Ok(3)

\* C15: list_issue_ids returns strictly increasing ids, and every id it
\* returns is read by get_issue, or get_issue reports that the chain of
\* that issue does not decode.
C15_ListedIdsReadable ==
    LET issue_ids == list_issue_ids(Repo) IN
    /\ \A k \in 1..(Len(issue_ids) - 1) : issue_ids[k] < issue_ids[k + 1]
    /\ \A k \in 1..Len(issue_ids) :
          LET issue == get_issue(Repo, issue_ids[k]) IN
          issue.ok \/ issue.err # "IssueNotFound"

\* ---------------------------------------------------------------------
\* The sync engine

\* The classification of a ref from its local oid and the oid fetched
\* from the remote.
Classify(local, remote_oid) ==
    IF local # NoOid /\ remote_oid = NoOid THEN NewRef
    ELSE IF local = remote_oid THEN UpToDate
    ELSE IF local = NoOid THEN LocallyDeleted
    ELSE LET lc == compare_refs(local, remote_oid).local_commits
             rc == compare_refs(local, remote_oid).remote_commits
         IN  IF rc = 0 THEN FastForward(lc)
             ELSE IF lc = 0 THEN Behind(rc)
             ELSE Diverged(lc, rc)

\* The candidate refs of the run, and for each its class by the rule above
\* and the calls of push_ref_to_remote made for it.
Candidates == {sync.refs_to_sync[k] : k \in 1..Len(sync.refs_to_sync)}
ClassOf(name) == Classify(read_ref(Repo, name), sync.remote_refs[name]).kind
PushesOf(name) ==
    {k \in 1..Len(sync.pushes) : sync.pushes[k].ref_name = name}
RealSync == sync.pc # "idle" /\ ~sync.dry_run
Completed == sync.pc = "done" /\ sync.k > 1

\* C17: every candidate ref of a sync is classified from its local oid and
\* the fetched remote oid: NewRef, UpToDate, LocallyDeleted, or by the
\* counts of compare_refs FastForward, Behind or Diverged.
C17_ClassifiedFromActualOids ==
    \A k \in 1..Len(sync.sync_refs) :
        sync.sync_refs[k].comparison =
            Classify(read_ref(Repo, sync.sync_refs[k].ref_name),
                     sync.remote_refs[sync.sync_refs[k].ref_name])

\* C18: in a sync that is not a dry run, a ref classified NewRef or
\* FastForward is pushed, and only with force = false; a ref classified
\* UpToDate or LocallyDeleted is never pushed; whatever the force flags.
C18_SafePushesOnly ==
    RealSync =>
        \A name \in Candidates :
            /\ ClassOf(name) \in {"NewRef", "FastForward"} =>
                  /\ \A k \in PushesOf(name) : ~sync.pushes[k].force
                  /\ Completed => PushesOf(name) # {}
            /\ ClassOf(name) \in {"UpToDate", "LocallyDeleted"} =>
                  PushesOf(name) = {}

\* C19: without a force flag, a ref classified Behind or Diverged is
\* recorded in conflicts and not pushed, the NewRef and FastForward refs
\* of the run are still pushed, and the run ends in failure.
C19_ConflictsRecordedAndFail ==
    (RealSync /\ ~sync.force /\ ~sync.force_without_lease /\ sync.pc = "done") =>
        \A name \in Candidates :
            (sync.remote_refs[name] # NoOid
             /\ ClassOf(name) \in {"Behind", "Diverged"}) =>
                /\ Contains(sync.conflicts, name)
                /\ PushesOf(name) = {}
                /\ \A other \in Candidates :
                      ClassOf(other) \in {"NewRef", "FastForward"} =>
                          PushesOf(other) # {}
                /\ sync.result # "Ok"

\* The step is a call of push_ref_to_remote for the ref.
Pushing(name) ==
    /\ Len(sync'.pushes) = Len(sync.pushes) + 1
    /\ sync'.pushes[Len(sync'.pushes)].ref_name = name

\* C20: a ref classified Behind or Diverged is pushed, under force, with
\* force = true and the oid seen at the fetch as the lease, so a remote ref
\* that was moved after the fetch is not overwritten; under
\* force_without_lease it is pushed with force = true.
C20_ForceWithLease ==
    [][\A name \in Candidates :
         (Pushing(name) /\ ClassOf(name) \in {"Behind", "Diverged"}) =>
             /\ (sync.force \/ sync.force_without_lease) =>
                   sync'.pushes[Len(sync'.pushes)].force
             /\ (sync.force /\ remote[name] # sync.remote_refs[name]) =>
                   remote'[name] = remote[name]]_vars

\* C21: a dry run fetches the remote oids of the candidate refs and reports
\* the classification of a real run: a ref the remote lacks is NewRef, a
\* ref the remote holds at the local oid is UpToDate.
C21_DryRunClassifies ==
    (sync.dry_run /\ sync.pc = "done" /\ sync.result = "Ok") =>
        /\ Len(sync.sync_refs) = Len(sync.refs_to_sync)
        /\ \A k \in 1..Len(sync.sync_refs) :
              LET name == sync.sync_refs[k].ref_name IN
              /\ sync.remote_refs[name] = remote[name]
              /\ sync.sync_refs[k].comparison =
                    Classify(read_ref(Repo, name), remote[name])

\* The refs a run acts on, in order, and those it has dealt with.
Worklist ==
    IF sync.engine = "handle_sync" THEN
        [k \in 1..Len(sync.refs_needing_sync) |-> sync.refs_needing_sync[k].ref_name]
    ELSE sync.refs_to_sync

Range(s) == {s[k] : k \in 1..Len(s)}

ActedOn ==
    Range(sync.pushed_refs) \cup Range(sync.failed_refs)
        \cup Range(sync.skipped_refs) \cup Range(sync.conflicts)

NoDuplicates(s) == \A a, b \in 1..Len(s) : a # b => s[a] # s[b]

\* No issue that can be read has a label twice.
LabelsDistinct(repo) ==
    \A i \in IssueIds :
        get_issue(repo, i).ok => NoDuplicates(get_issue(repo, i).val.labels)

\* A call of add_label by p with a label issue i has.
AddsPresentLabel(p, i) ==
    /\ Calls(p, "add_label", i)
    /\ \E v \in Labels :
         /\ Currently(i, LAMBDA c : Contains(c.labels, v))
         /\ add_label(p, i, v)

\* C23: after every step of every interleaving of mutations the labels of
\* each readable issue hold no label twice, and add_label with a label the
\* issue already has returns success and leaves the chain and the labels
\* as they are.
C23_LabelsHaveNoDuplicates ==
    [][/\ Repo' = Repo \/ LabelsDistinct(Repo')
       /\ \A p \in Procs :
            \A i \in {proc'[p].issue_id} \cap IssueIds :
               AddsPresentLabel(p, i) =>
                   /\ NoOpReturn(p)
                   /\ get_issue_events(Repo', i) = get_issue_events(Repo, i)
                   /\ get_issue(Repo', i) = get_issue(Repo, i)]_vars

\* A chain that holds two LabelAdded events of one label, read back with
\* the label once.
C23_Witness ==
    \E i \in IssueIds :
        /\ \E a, b \in 1..Len(applied[i]) :
             /\ a < b
             /\ applied[i][a].kind = "LabelAdded"
             /\ applied[i][b].kind = "LabelAdded"
             /\ applied[i][b].label = applied[i][a].label
        /\ get_issue_events(Repo, i) = Ok(applied[i])
        /\ get_issue(Repo, i).ok
        /\ get_issue(Repo, i).val.labels = <<"bug">>

\* The label grammar: not empty, no whitespace at either end or inside.
LabelGrammar(label) ==
    /\ label # <<>>
    /\ \A k \in 1..Len(label) : label[k] \notin Whitespace

LabelsWellFormed(repo) ==
    \A i \in IssueIds :
        get_issue(repo, i).ok =>
            \A k \in 1..Len(get_issue(repo, i).val.labels) :
                LabelGrammar(get_issue(repo, i).val.labels[k])

\* The step is a call by p of a label mutation of issue i with label l.
LabelCall(p, i, l) ==
    \/ Calls(p, "add_label", i) /\ add_label(p, i, l)
    \/ Calls(p, "remove_label", i) /\ remove_label(p, i, l)

\* C24: add_label and remove_label trim the label they are given; a label
\* that is then empty or holds whitespace is rejected with a validation
\* error and nothing is appended, an event that is built carries the
\* trimmed label, and no readable issue has a label outside the grammar.
C24_StoreValidatesLabels ==
    [][/\ LabelsWellFormed(Repo')
       /\ \A p \in Procs :
            \A i \in {proc'[p].issue_id} \cap IssueIds :
               \A l \in RawLabels :
                  LabelCall(p, i, l) =>
                      /\ ~LabelGrammar(trim(l)) =>
                             /\ proc'[p].pc = "idle"
                             /\ proc'[p].result = "Validation"
                      /\ proc'[p].event # NoEvent =>
                             proc'[p].event.label = trim(l)]_vars

\* The status grammar: the status a word stands for, "none" for a word
\* outside the grammar.
GrammarStatus(word) ==
    CASE to_lowercase(word) \in {"todo", "open"} -> "Todo"
      [] to_lowercase(word) \in {"in-progress", "inprogress", "progress"} -> "InProgress"
      [] to_lowercase(word) \in {"done", "closed", "complete"} -> "Done"
      [] OTHER -> "none"

\* The command p called treated the word as the grammar says.
AsGrammar(p, word) ==
    IF GrammarStatus(word) = "none"
    THEN proc'[p].pc = "idle" /\ proc'[p].result = "InvalidStatus"
    ELSE /\ proc'[p].result # "InvalidStatus"
         /\ proc'[p].event # NoEvent => proc'[p].event.to = GrammarStatus(word)

\* C25: the status command and the edit form accept every word of the
\* status grammar, in any case, and map it to the same status, and both
\* reject every other word.
C25_StatusGrammarAgrees ==
    [][\A p \in Procs : \A id \in IssueIds : \A word \in StatusTokens :
         (proc[p].pc = "idle" /\ get_issue(Repo, id).ok) =>
             /\ handle_status(p, id, word) => AsGrammar(p, word)
             /\ handle_edit_status(p, id, word) => AsGrammar(p, word)]_vars

\* The chain has a Created event after its first event.
CreatedLater(events) == \E k \in 2..Len(events) : events[k].kind = "Created"

\* C26: get_issue fails with IssueNotFound for an issue without a ref and
\* with InvalidEventSequence for a chain whose oldest event is not Created
\* or that holds a Created event at a later position; an aggregate is
\* returned only for a chain with Created first and nowhere else.
C26_MalformedChainsRejected ==
    \A i \in IssueIds :
        LET events == get_issue_events(Repo, i)
            issue == get_issue(Repo, i)
        IN  /\ IssueHead(i) = NoOid => issue = Err("IssueNotFound")
            /\ (events.ok /\ Len(events.val) > 0
                  /\ (events.val[1].kind # "Created" \/ CreatedLater(events.val)))
                 => issue = Err("InvalidEventSequence")
            /\ issue.ok => events.val[1].kind = "Created" /\ ~CreatedLater(events.val)

\* A mutation has returned InvalidEventSequence on a chain that starts with
\* Created and holds Created again.
C26_Witness ==
    \E i \in IssueIds :
        LET events == get_issue_events(Repo, i) IN
        /\ events.ok
        /\ Len(events.val) = 2
        /\ events.val[1].kind = "Created" /\ events.val[2].kind = "Created"
        /\ \E p \in Procs : proc[p].pc = "idle"
                             /\ proc[p].result = "InvalidEventSequence"

\* The step is a call by p of one of the mutations of the store on issue i.
MutationCall(p, i) ==
    /\ proc[p].pc = "idle"
    /\ ops' = ops + 1
    /\ proc'[p] # proc[p]
    /\ proc'[p].issue_id \in {0, i}
    /\ \/ \E v \in Statuses : update_issue_status(p, i, v)
       \/ \E v \in Contents : add_comment(p, i, v)
       \/ \E v \in Labels : add_label(p, i, v)
       \/ \E v \in Labels : remove_label(p, i, v)
       \/ \E v \in Titles : update_title(p, i, v)
       \/ \E v \in AssigneeOptions : update_assignee(p, i, v)
       \/ \E v \in AssigneeLists : update_assignees(p, i, v)
       \/ \E v \in Descriptions : update_description(p, i, v)
       \/ \E v \in Priorities : update_priority(p, i, v)
       \/ \E v \in Identities : update_created_by(p, i, v)

\* C27: a mutation called on an issue id that has no ref returns
\* IssueNotFound at once and changes nothing: no ref is created or moved,
\* no object is written and the id counter stays as it is.
C27_MutationOfMissingIssueFails ==
    [][\A p \in Procs : \A i \in IssueIds :
         (IssueHead(i) = NoOid /\ MutationCall(p, i)) =>
             /\ proc'[p].pc = "idle"
             /\ proc'[p].result = "IssueNotFound"
             /\ refs' = refs
             /\ odb' = odb
             /\ get_next_issue_id(Repo') = get_next_issue_id(Repo)]_vars

\* A mutation has returned IssueNotFound while an issue id has no ref, in
\* a repository that holds an issue.
C27_Witness ==
    /\ \E p \in Procs : proc[p].pc = "idle" /\ proc[p].result = "IssueNotFound"
    /\ \E i \in IssueIds : IssueHead(i) = NoOid
    /\ \E i \in IssueIds : IssueHead(i) # NoOid

\* The fold table: the aggregate after an event that is not Created.
FoldTable(issue, event) ==
    CASE event.kind = "StatusChanged" -> [issue EXCEPT !.updated_at = event.timestamp, !.status = event.to]
      [] event.kind = "CommentAdded" ->
           [issue EXCEPT !.updated_at = event.timestamp, !.comments =
              Append(@, [id |-> event.comment_id, content |-> event.content,
                         created_at |-> event.timestamp,
                         author |-> event.author])]
      [] event.kind = "LabelAdded" ->
           IF Contains(issue.labels, event.label) THEN [issue EXCEPT !.updated_at = event.timestamp]
           ELSE [issue EXCEPT !.updated_at = event.timestamp, !.labels = Append(@, event.label)]
      [] event.kind = "LabelRemoved" ->
           LET Other(l) == l # event.label
           IN  [issue EXCEPT !.updated_at = event.timestamp, !.labels = SelectSeq(@, Other)]
      [] event.kind = "TitleChanged" -> [issue EXCEPT !.updated_at = event.timestamp, !.title = event.new_title]
      [] event.kind = "DescriptionChanged" ->
           [issue EXCEPT !.updated_at = event.timestamp, !.description = event.new_description]
      [] event.kind = "AssigneeChanged" ->
           [issue EXCEPT !.updated_at = event.timestamp, !.assignees =
              IF event.new_assignee = <<>> THEN <<>>
              ELSE <<event.new_assignee[1]>>]
      [] event.kind = "AssigneesChanged" ->
           [issue EXCEPT !.updated_at = event.timestamp, !.assignees = event.new_assignees]
      [] event.kind = "PriorityChanged" ->
           [issue EXCEPT !.updated_at = event.timestamp, !.priority = event.new_priority]
      [] event.kind = "CreatedByChanged" ->
           [issue EXCEPT !.updated_at = event.timestamp, !.created_by = event.new_created_by]

OldValue(event) ==
    CASE event.kind = "StatusChanged" -> event.from
      [] event.kind = "TitleChanged" -> event.old_title
      [] event.kind = "DescriptionChanged" -> event.old_description
      [] event.kind = "AssigneeChanged" -> event.old_assignee
      [] event.kind = "AssigneesChanged" -> event.old_assignees
      [] event.kind = "PriorityChanged" -> event.old_priority
      [] event.kind = "CreatedByChanged" -> event.old_created_by

FieldValue(issue, event) ==
    CASE event.kind = "StatusChanged" -> issue.status
      [] event.kind = "TitleChanged" -> issue.title
      [] event.kind = "DescriptionChanged" -> issue.description
      [] event.kind = "AssigneeChanged" -> current_assignee(issue)
      [] event.kind = "AssigneesChanged" -> issue.assignees
      [] event.kind = "PriorityChanged" -> issue.priority
      [] event.kind = "CreatedByChanged" -> issue.created_by

OldValueKinds ==
    {"StatusChanged", "TitleChanged", "DescriptionChanged", "AssigneeChanged",
     "AssigneesChanged", "PriorityChanged", "CreatedByChanged"}

\* C30: every change event of every chain records as its old value the
\* value the field has in the aggregate folded from the events before it,
\* that is at its parent commit, whatever the interleaving.
C30_OldValueIsParentState ==
    \A i \in IssueIds :
        LET events == get_issue_events(Repo, i) IN
        events.ok =>
            \A k \in 2..Len(events.val) :
                events.val[k].kind \in OldValueKinds =>
                    LET before == FoldLeft(i, events.val, k - 1) IN
                    /\ before.ok
                    /\ OldValue(events.val[k]) = FieldValue(before.val, events.val[k])

\* The event with its old value blanked.
EraseOld(event) ==
    CASE event.kind = "StatusChanged" -> [event EXCEPT !.from = "Todo"]
      [] event.kind = "TitleChanged" -> [event EXCEPT !.old_title = ""]
      [] OTHER -> event

\* C29: replay is deterministic: at every time of the clock the events
\* read are the events as they were appended and the aggregate is their
\* replay, so two reads of the same chain agree; the aggregate depends on
\* the new values and the timestamps of the events only, not on their old
\* values (blanking them changes nothing), the time of the read or the
\* time of the commits (created_at and updated_at are the times of the
\* first and the last event).
C29_ReplayDeterministic ==
    \A i \in IssueIds :
        LET events == get_issue_events(Repo, i)
            issue == get_issue(Repo, i)
        IN  (events.ok /\ Len(events.val) > 0) =>
                /\ events.val = applied[i]
                /\ issue = from_events(i, [k \in 1..Len(events.val) |->
                                              EraseOld(events.val[k])])
                /\ issue.ok
                /\ issue.val.created_at = events.val[1].timestamp
                /\ issue.val.updated_at = events.val[Len(events.val)].timestamp

\* An issue read at a time that is neither the time of its last event nor
\* the time of the commit of that event, which differ.
C29_Witness ==
    \E i \in IssueIds :
        LET events == get_issue_events(Repo, i) IN
        /\ events.ok
        /\ Len(events.val) >= 2
        /\ IssueHead(i).time # events.val[Len(events.val)].timestamp
        /\ now # IssueHead(i).time
        /\ get_issue(Repo, i).ok
        /\ get_issue(Repo, i).val.updated_at = events.val[Len(events.val)].timestamp
        /\ get_issue(Repo, i).val.updated_at # now

\* The event a commit carries: the decoded blob of the first entry of its
\* tree.
CarriedEvent(commit) == commit.tree.entries[1].oid.data.json

EventCommits ==
    {c \in odb : c.kind = "commit" /\ c.tree.kind = "tree"
                   /\ Len(c.tree.entries) = 1
                   /\ DecodeEvent(c.tree.entries[1].oid.data).ok}

\* C31: the time recorded in every event commit is the timestamp of the
\* event it carries, and read_commit returns the time stored in the commit.
C31_CommitTimeIsEventTime ==
    \A c \in EventCommits :
        /\ c.time = CarriedEvent(c).timestamp
        /\ read_commit(Repo, c).ok
        /\ read_commit(Repo, c).val.timestamp = c.time

\* The ids list_issues reads whose chain replays to an aggregate.
ReadableIds ==
    LET issue_ids == list_issue_ids(Repo) IN
    {issue_ids[k] : k \in {j \in 1..Len(issue_ids) :
                              get_issue(Repo, issue_ids[j]).ok}}

\* C32: list_issues never fails because of one chain: it returns the
\* aggregate of every listed issue whose chain decodes and replays, and
\* skips the others.
C32_ListSkipsBadChains ==
    LET listing == list_issues(Repo) IN
    /\ listing.ok
    /\ {listing.val[k].id : k \in 1..Len(listing.val)} = ReadableIds

RECURSIVE FirstParents(_)
\* The commits of a chain: a commit and the commits along its first parents.
FirstParents(commit) ==
    {commit} \cup (IF Len(commit.parents) = 0 THEN {}
                   ELSE FirstParents(commit.parents[1]))

OnlyEventJson(commit) ==
    /\ Len(commit.tree.entries) = 1
    /\ commit.tree.entries[1].name = "event.json"

\* C33: get_issue_events fails on a chain in which the tree of some commit
\* is not exactly one entry named event.json.
C33_TreeIsExactlyEventJson ==
    \A i \in IssueIds :
        LET head == read_ref(Repo, issue_ref_name(i)) IN
        (head # NoOid /\ \E c \in FirstParents(head) : ~OnlyEventJson(c))
            => ~get_issue_events(Repo, i).ok

\* The update of the counter ref by p finds another value than the one it
\* expects.
CounterCasFails(p) ==
    /\ proc[p].pc = "alloc_commit"
    /\ ~TxExpected(p)
    /\ proc'[p] # proc[p]

\* C34: a create_issue whose update of the counter ref loses a race does
\* not return an error: with fewer calls than the retry bound the
\* allocation is tried again.
C34_AllocationRetried ==
    [][\A p \in Procs : CounterCasFails(p) => proc'[p].pc # "idle"]_vars

\* C35: no email appears twice among the assignees of an issue, whatever
\* assign and unassign commands have run.
C35_AssigneesDistinct ==
    \A i \in IssueIds :
        LET issue == get_issue(Repo, i) IN
        issue.ok => NoDuplicates(issue.val.assignees)

\* The refs a step of p may change: the counter ref while create_issue
\* allocates, the ref of the allocated id while it appends, and the ref of
\* the issue it was called on in a mutation.
MayChange(p) ==
    IF proc[p].op = "create_issue"
    THEN (IF proc[p].pc = "alloc_commit" THEN {meta_ref}
          ELSE {issue_ref_name(proc[p].current_id)})
    ELSE {issue_ref_name(proc[p].issue_id)}

\* C36: a mutation of issue i changes no ref but the ref of i, and
\* create_issue changes no ref but the counter ref and the ref of the id
\* it allocated; a call that returns without effect or with an error
\* changes no ref.
C36_OtherRefsUnchanged ==
    [][\A name \in RefNames :
         refs'[name] # refs[name] =>
            \E p \in Procs :
               /\ proc'[p] # proc[p]
               /\ name \in MayChange(p)
               /\ proc[p].pc \in {"alloc_commit", "ref_commit"}
               /\ proc'[p].result \in {"none", "Ok"}]_vars

\* A mutation has moved the ref of issue 1 while issue 2 and the counter
\* exist, and a create_issue has made the ref of issue 2.
C36_Witness ==
    /\ Len(applied[1]) >= 2
    /\ Len(applied[2]) = 1
    /\ refs[issue_ref_name(2)] # NoOid
    /\ refs[meta_ref] = NextIdBlob(2)

\* create_issue of p is about to create the ref of the id it allocated,
\* and that ref exists.
CreatesExisting(p) ==
    /\ proc[p].op = "create_issue"
    /\ proc[p].pc = "ref_commit"
    /\ refs[issue_ref_name(proc[p].issue_id)] # NoOid
    /\ proc'[p] # proc[p]

\* C37: create_issue never overwrites an issue: when the ref of the id it
\* allocated exists, it returns an error and no ref changes; a ref of an
\* issue that exists is never changed by a create_issue.
C37_CreateNeverOverwrites ==
    [][/\ \A p \in Procs :
            CreatesExisting(p) => /\ proc'[p].pc = "idle"
                                  /\ proc'[p].result = "Git(ReferenceCreationFailed)"
                                  /\ refs' = refs
       /\ \A i \in IssueIds :
            refs[issue_ref_name(i)] # NoOid =>
                refs'[issue_ref_name(i)] = refs[issue_ref_name(i)]]_vars

\* Two calls of create_issue were given the same id; the second has failed
\* and the issue is the one the other call created.
C37_Witness ==
    \E p \in Procs :
        /\ proc[p].op = "create_issue"
        /\ proc[p].pc = "idle"
        /\ proc[p].result = "Git(ReferenceCreationFailed)"
        /\ proc[p].issue_id # 0
        /\ allocCount[proc[p].issue_id] = 2
        /\ Len(applied[proc[p].issue_id]) = 1
        /\ applied[proc[p].issue_id][1].author # ProcAuthor(p)
        /\ get_issue(Repo, proc[p].issue_id).ok
        /\ get_issue(Repo, proc[p].issue_id).val.created_by = applied[proc[p].issue_id][1].author

\* C38: the value of the next-issue-id counter is greater than the id of
\* every issue that has a ref.
C38_CounterAboveEveryIssue ==
    \A i \in IssueIds :
        refs[issue_ref_name(i)] # NoOid =>
            /\ get_next_issue_id(Repo).ok
            /\ get_next_issue_id(Repo).val > i

\* How many times a ref is named in the four lists of the summary.
Mentions(name) ==
    Cardinality({k \in 1..Len(sync.pushed_refs) : sync.pushed_refs[k] = name})
      + Cardinality({k \in 1..Len(sync.skipped_refs) : sync.skipped_refs[k] = name})
      + Cardinality({k \in 1..Len(sync.failed_refs) : sync.failed_refs[k] = name})
      + Cardinality({k \in 1..Len(sync.conflicts) : sync.conflicts[k] = name})

====
